---- MODULE Spec2Model ----
(***************************************************************************)
(* Dreamscape backend: the per-session turn loop (Session.process_input),  *)
(* the agent orchestrator (LLMService), the tool dispatcher                *)
(* (LLMService._execute_tool) and the world state engine                   *)
(* (WorldStateManager).                                                    *)
(*                                                                         *)
(* Numbers: the source's floats are modelled by integers.  Colours,        *)
(* intensities and material factors are in hundredths (1.0 is 100);        *)
(* coordinates are whole units.                                            *)
(*                                                                         *)
(* Python dicts are functions with a domain of strings: a key is present   *)
(* iff it is in the DOMAIN.  None, for a dict-valued entry, is the record  *)
(* NoneVal.                                                                *)
(***************************************************************************)
EXTENDS Integers, Sequences, FiniteSets, TLC

(***************************************************************************)
(* Bounds of the model (not program constants).                            *)
(***************************************************************************)
\* process_input invocations of the session
MaxInputs == 2
\* times the agent changes its behaviour in a session: a varied response, or the
\* start of a run of habit responses (a failure of the provider is not counted)
MaxVaried == 1
\* calls made on one engine from outside a session
MaxEngineCalls == 3
\* texts added to one narrative log from outside a session
MaxNarrated == 25
MaxSteps == 9

(***************************************************************************)
(* Program constants.                                                      *)
(***************************************************************************)
\* llm_service.py:226  if depth >= 5
MaxDepth == 5
\* world_state.py:168  if len(narrative_history) > 20
NarrativeCap == 20
\* llm_service.py:146  if len(conversation_history) > 20
HistoryLimit == 20
\* llm_service.py:147  conversation_history[-16:]
HistoryKeep == 16
\* world_state.py:198  narrative_history[-5:]
SummaryNarrative == 5

Tasks == 1..MaxInputs

(***************************************************************************)
(* Python values.                                                          *)
(***************************************************************************)
NoneVal == [none |-> TRUE]
EmptyDict == [k \in {} |-> TRUE]
IsNone(v) == DOMAIN v = {"none"}
\* "not data" for a dict-or-None value
Falsy(v) == DOMAIN v = {} \/ IsNone(v)
\* dict.get(k, default)
Get(d, k, default) == IF k \in DOMAIN d THEN d[k] ELSE default
\* lst[-n:]
LastN(s, n) == IF Len(s) <= n THEN s ELSE SubSeq(s, Len(s) - n + 1, Len(s))
\* model(**parsed) over the model's defaults; keys that are no field are ignored
Override(defaults, parsed) ==
    [k \in DOMAIN defaults |-> IF k \in DOMAIN parsed THEN parsed[k] ELSE defaults[k]]
\* {k: v for k, v in data.items() if v is not None}, for the dict-valued keys ks
DropNone(data, ks) ==
    [k \in {j \in DOMAIN data : ~(j \in ks /\ IsNone(data[j]))} |-> data[k]]

(***************************************************************************)
(* schemas/world.py                                                        *)
(***************************************************************************)
GeometryTypes == {"box", "sphere", "cylinder", "cone", "torus", "plane", "custom"}

Vec3(x, y, z) == [x |-> x, y |-> y, z |-> z]
Color(r, g, b) == [r |-> r, g |-> g, b |-> b]

GeometryParams == [type |-> "box"]

MaterialParams ==
    [color |-> Color(100, 100, 100), emissive |-> NoneVal, emissive_intensity |-> 0,
     metalness |-> 0, roughness |-> 50, opacity |-> 100, transparent |-> FALSE,
     wireframe |-> FALSE, flat_shading |-> FALSE]

PhysicsParams ==
    [has_gravity |-> TRUE, is_static |-> TRUE, mass |-> 100, friction |-> 50,
     restitution |-> 30]

AnimationParams ==
    [type |-> "none", speed |-> 100, axis |-> Vec3(0, 1, 0), amplitude |-> 100]

EnvironmentSettings ==
    [sky_color |-> Color(53, 81, 92), ground_color |-> Color(34, 49, 27),
     fog_color |-> NoneVal, fog_near |-> 50, fog_far |-> 200, fog_enabled |-> FALSE,
     ambient_light_color |-> Color(40, 40, 40), ambient_light_intensity |-> 60,
     sun_color |-> Color(100, 95, 80), sun_intensity |-> 100,
     sun_position |-> Vec3(50, 100, 50), time_of_day |-> "day"]

TerrainParams ==
    [type |-> "flat", size |-> 100, height |-> 10, color |-> Color(34, 49, 27),
     segments |-> 32, seed |-> NoneVal]

\* WorldState(): objects is the name map
WorldState ==
    [objects |-> EmptyDict, environment |-> EnvironmentSettings, terrain |-> <<>>,
     narrative_history |-> <<>>, turn_count |-> 0]

(***************************************************************************)
(* services/world_state.py: the parse helpers.                             *)
(***************************************************************************)
\* a JSON value where a number is expected that float() and the scene model
\* reject, such as the string "far"
NonNumeric == -1000000

\* float(data.get(k, 0)) raises ValueError on such a component
VecRaises(data) ==
    ~Falsy(data) /\ \E k \in DOMAIN data \cap {"x", "y", "z"} : data[k] = NonNumeric

ColorRaises(data) ==
    ~Falsy(data) /\ \E k \in DOMAIN data \cap {"r", "g", "b"} : data[k] = NonNumeric

\* AnimationParams(**parsed) rejects a speed or an amplitude that is no number
AnimationRaises(data) ==
    \/ \E k \in DOMAIN data \cap {"speed", "amplitude"} : data[k] = NonNumeric
    \/ "axis" \in DOMAIN data /\ VecRaises(data.axis)

\* MaterialParams(**parsed) rejects a factor that is no number
MaterialRaises(data) ==
    \/ \E k \in DOMAIN data \cap {"color", "emissive"} : ColorRaises(data[k])
    \/ \E k \in DOMAIN data \cap {"emissive_intensity", "metalness", "roughness", "opacity"} :
         data[k] = NonNumeric

\* the index of the first key of order, a sequence, that Fails, 0 for none
FirstFailing(order, Fails(_)) ==
    IF \E i \in 1..Len(order) : Fails(order[i])
    THEN CHOOSE i \in 1..Len(order) :
           Fails(order[i]) /\ \A j \in 1..(i - 1) : ~Fails(order[j])
    ELSE 0

\* the patch without the keys of order from the i-th on: what a run of
\* "if k in data" blocks has applied when the i-th block raises
AppliedBefore(data, order, i) ==
    [k \in DOMAIN data \ {order[j] : j \in i..Len(order)} |-> data[k]]

parse_vec3(data, default) ==
    IF Falsy(data) THEN default
    ELSE Vec3(Get(data, "x", 0), Get(data, "y", 0), Get(data, "z", 0))

parse_color(data) ==
    IF Falsy(data) THEN Color(100, 100, 100)
    ELSE Color(Get(data, "r", 100), Get(data, "g", 100), Get(data, "b", 100))

\* GeometryParams(**...) raises the validation error on a type outside the enum;
\* None.items() raises on geometry = None.
GeometryRaises(data) ==
    \/ IsNone(data)
    \/ "type" \in DOMAIN data /\ data.type \notin GeometryTypes

parse_geometry(data) == Override(GeometryParams, data)

parse_material(data) ==
    LET kept == DropNone(data, {"color", "emissive"})
        parsed == [k \in DOMAIN kept |->
                     IF k \in {"color", "emissive"} THEN parse_color(kept[k]) ELSE kept[k]]
    IN  Override(MaterialParams, parsed)

parse_physics(data) == Override(PhysicsParams, data)

parse_animation(data) ==
    LET kept == DropNone(data, {"axis"})
        parsed == [k \in DOMAIN kept |->
                     IF k = "axis" THEN parse_vec3(kept[k], Vec3(0, 0, 0)) ELSE kept[k]]
    IN  Override(AnimationParams, parsed)

\* the "x".items() calls of the parse helpers raise on None
DictRaises(data, key) == key \in DOMAIN data /\ IsNone(data[key])

(***************************************************************************)
(* services/world_state.py: WorldStateManager.  Every operation returns    *)
(* the new world state with its result; an operation that raises returns   *)
(* raised = TRUE with the world state it left behind.                      *)
(***************************************************************************)
\* WorldObject(...) of a child spec, after the two setdefault calls
ChildObject(child_data, parent, sfx) ==
    [name |-> Get(child_data, "name", parent \o "_child_" \o sfx),
     description |-> Get(child_data, "description", ""),
     position |-> parse_vec3(Get(child_data, "position", NoneVal), Vec3(0, 0, 0)),
     rotation |-> parse_vec3(Get(child_data, "rotation", NoneVal), Vec3(0, 0, 0)),
     scale |-> parse_vec3(Get(child_data, "scale", NoneVal), Vec3(1, 1, 1)),
     geometry |-> parse_geometry(Get(child_data, "geometry", [type |-> "box"])),
     material |-> parse_material(Get(child_data, "material", EmptyDict)),
     physics |-> parse_physics(Get(child_data, "physics", EmptyDict)),
     animation |-> parse_animation(Get(child_data, "animation", EmptyDict)),
     children |-> <<>>, tags |-> <<>>, metadata |-> EmptyDict]

ChildRaises(child_data) ==
    \/ GeometryRaises(Get(child_data, "geometry", [type |-> "box"]))
    \/ DictRaises(child_data, "material")
    \/ DictRaises(child_data, "physics")
    \/ DictRaises(child_data, "animation")

CreateRaises(data) ==
    \/ "name" \notin DOMAIN data
    \/ GeometryRaises(Get(data, "geometry", EmptyDict))
    \/ DictRaises(data, "material")
    \/ DictRaises(data, "physics")
    \/ DictRaises(data, "animation")
    \/ \E k \in {"position", "rotation", "scale"} : VecRaises(Get(data, k, NoneVal))
    \/ MaterialRaises(Get(data, "material", EmptyDict))
    \/ AnimationRaises(Get(data, "animation", EmptyDict))
    \/ \E i \in 1..Len(Get(data, "children", <<>>)) : ChildRaises(data.children[i])

\* the final name: the requested one, or with the drawn suffix on a collision
FinalName(w, requested, sfx) ==
    IF requested \in DOMAIN w.objects THEN requested \o "_" \o sfx ELSE requested

\* WorldObject(...) with the children appended, under its final name
NewObject(name, data, sfx) ==
    [name |-> name,
     description |-> Get(data, "description", ""),
     position |-> parse_vec3(Get(data, "position", NoneVal), Vec3(0, 0, 0)),
     rotation |-> parse_vec3(Get(data, "rotation", NoneVal), Vec3(0, 0, 0)),
     scale |-> parse_vec3(Get(data, "scale", NoneVal), Vec3(1, 1, 1)),
     geometry |-> parse_geometry(Get(data, "geometry", EmptyDict)),
     material |-> parse_material(Get(data, "material", EmptyDict)),
     physics |-> parse_physics(Get(data, "physics", EmptyDict)),
     animation |-> parse_animation(Get(data, "animation", EmptyDict)),
     children |-> [i \in 1..Len(Get(data, "children", <<>>)) |->
                     ChildObject(data.children[i], name, sfx)],
     tags |-> Get(data, "tags", <<>>),
     metadata |-> Get(data, "metadata", EmptyDict)]

create_object(w, data, sfx) ==
    IF CreateRaises(data) THEN [raised |-> TRUE, world |-> w, result |-> NoneVal]
    ELSE
    LET obj == NewObject(FinalName(w, data.name, sfx), data, sfx)
        objs == [n \in DOMAIN w.objects \cup {obj.name} |->
                   IF n = obj.name THEN obj ELSE w.objects[n]]
    IN  [raised |-> FALSE, world |-> [w EXCEPT !.objects = objs], result |-> obj]

\* "k in data and data[k]" for a dict-valued key
Carries(data, k) == k \in DOMAIN data /\ ~Falsy(data[k])

\* the material block of modify_object: the five keys it copies
PatchMaterial(m, mat) ==
    [m EXCEPT
       !.color = IF "color" \in DOMAIN mat THEN parse_color(mat.color) ELSE @,
       !.metalness = IF "metalness" \in DOMAIN mat THEN mat.metalness ELSE @,
       !.roughness = IF "roughness" \in DOMAIN mat THEN mat.roughness ELSE @,
       !.opacity = IF "opacity" \in DOMAIN mat THEN mat.opacity ELSE @,
       !.transparent = IF "transparent" \in DOMAIN mat THEN mat.transparent ELSE @]

\* the five "if k in data and data[k]" blocks, each on its own field
Patched(obj, data) ==
    [obj EXCEPT
       !.position = IF Carries(data, "position")
                    THEN parse_vec3(data.position, Vec3(0, 0, 0)) ELSE @,
       !.rotation = IF Carries(data, "rotation")
                    THEN parse_vec3(data.rotation, Vec3(0, 0, 0)) ELSE @,
       !.scale = IF Carries(data, "scale")
                 THEN parse_vec3(data.scale, Vec3(1, 1, 1)) ELSE @,
       !.material = IF Carries(data, "material") THEN PatchMaterial(@, data.material) ELSE @,
       !.animation = IF Carries(data, "animation")
                     THEN parse_animation(data.animation) ELSE @]

\* the object, changed in place in the name map, is what modify_object returns
Modified(w, name, obj) ==
    [raised |-> FALSE, world |-> [w EXCEPT !.objects[name] = obj],
     found |-> TRUE, result |-> obj]

\* a variant that drops the name map when the name is not found
modify_object_clears(w, data) ==
    LET name == Get(data, "name", "") IN
    IF name \notin DOMAIN w.objects
    THEN [raised |-> FALSE, world |-> [w EXCEPT !.objects = EmptyDict], found |-> FALSE,
          result |-> NoneVal]
    ELSE
    Modified(w, name, Patched(w.objects[name], data))

\* the blocks of modify_object, in the order they run
ModifyOrder == <<"position", "rotation", "scale", "material", "animation">>

\* the block of key k raises: _parse_vec3, _parse_color or _parse_animation
ModifyBlockRaises(data, k) ==
    /\ Carries(data, k)
    /\ CASE k = "material" -> "color" \in DOMAIN data[k] /\ ColorRaises(data[k].color)
         [] k = "animation" -> AnimationRaises(data[k])
         [] OTHER -> VecRaises(data[k])

ModifyFails(data) == FirstFailing(ModifyOrder, LAMBDA k : ModifyBlockRaises(data, k))

\* obj is the stored object: when a block raises, it keeps what the blocks
\* before it assigned
modify_object(w, data) ==
    LET name == Get(data, "name", "") IN
    IF name \notin DOMAIN w.objects
    THEN [raised |-> FALSE, world |-> w, found |-> FALSE, result |-> NoneVal]
    ELSE IF ModifyFails(data) # 0
    THEN [raised |-> TRUE, found |-> TRUE, result |-> NoneVal,
          world |-> [w EXCEPT !.objects[name] =
                       Patched(@, AppliedBefore(data, ModifyOrder, ModifyFails(data)))]]
    ELSE
    Modified(w, name, Patched(w.objects[name], data))

\* a variant that reports a removal whether or not the name was stored
remove_object_reports(w, name) ==
    [world |-> [w EXCEPT !.objects = [n \in DOMAIN w.objects \ {name} |-> w.objects[n]]],
     result |-> TRUE]

remove_object(w, name) ==
    IF name \in DOMAIN w.objects
    THEN [world |-> [w EXCEPT !.objects = [n \in DOMAIN w.objects \ {name} |-> w.objects[n]]],
          result |-> TRUE]
    ELSE [world |-> w, result |-> FALSE]

\* the "if k in data" blocks of update_environment, each on its own field
EnvironmentPatched(e, data) ==
    [e EXCEPT
       !.sky_color = IF "sky_color" \in DOMAIN data THEN parse_color(data.sky_color) ELSE @,
       !.fog_enabled = IF "fog_enabled" \in DOMAIN data THEN data.fog_enabled ELSE @,
       !.fog_color = IF "fog_color" \in DOMAIN data THEN parse_color(data.fog_color) ELSE @,
       !.fog_near = IF "fog_near" \in DOMAIN data THEN data.fog_near ELSE @,
       !.fog_far = IF "fog_far" \in DOMAIN data THEN data.fog_far ELSE @,
       !.ambient_light_color = IF "ambient_light_color" \in DOMAIN data
                               THEN parse_color(data.ambient_light_color) ELSE @,
       !.ambient_light_intensity = IF "ambient_light_intensity" \in DOMAIN data
                                   THEN data.ambient_light_intensity ELSE @,
       !.sun_color = IF "sun_color" \in DOMAIN data THEN parse_color(data.sun_color) ELSE @,
       !.sun_intensity = IF "sun_intensity" \in DOMAIN data THEN data.sun_intensity ELSE @,
       !.sun_position = IF "sun_position" \in DOMAIN data
                        THEN parse_vec3(data.sun_position, Vec3(0, 0, 0)) ELSE @,
       !.time_of_day = IF "time_of_day" \in DOMAIN data THEN data.time_of_day ELSE @]

\* the blocks of update_environment, in the order they run
EnvironmentOrder ==
    <<"sky_color", "fog_enabled", "fog_color", "fog_near", "fog_far", "ambient_light_color",
      "ambient_light_intensity", "sun_color", "sun_intensity", "sun_position", "time_of_day">>

\* the block of key k raises: _parse_color or _parse_vec3
EnvironmentBlockRaises(data, k) ==
    /\ k \in DOMAIN data
    /\ CASE k \in {"sky_color", "fog_color", "ambient_light_color", "sun_color"} ->
                ColorRaises(data[k])
         [] k = "sun_position" -> VecRaises(data[k])
         [] OTHER -> FALSE

EnvironmentFails(data) ==
    FirstFailing(EnvironmentOrder, LAMBDA k : EnvironmentBlockRaises(data, k))

\* env is the live settings object: a block that raises leaves what the blocks
\* before it assigned
update_environment(w, data) ==
    IF EnvironmentFails(data) # 0
    THEN [raised |-> TRUE, result |-> NoneVal,
          world |-> [w EXCEPT !.environment =
                       EnvironmentPatched(@, AppliedBefore(data, EnvironmentOrder,
                                                           EnvironmentFails(data)))]]
    ELSE [raised |-> FALSE, result |-> EnvironmentPatched(w.environment, data),
          world |-> [w EXCEPT !.environment = EnvironmentPatched(@, data)]]

\* TerrainParams(...) rejects a size or a height that is no number, and
\* _parse_color a component that is none, before anything is appended
TerrainRaises(data) ==
    \/ \E k \in DOMAIN data \cap {"size", "height"} : data[k] = NonNumeric
    \/ ColorRaises(Get(data, "color", EmptyDict))

add_terrain(w, data) ==
    LET terrain == [type |-> Get(data, "type", "flat"),
                    size |-> Get(data, "size", 100),
                    height |-> Get(data, "height", 10),
                    color |-> parse_color(Get(data, "color", EmptyDict)),
                    segments |-> Get(data, "segments", 32),
                    seed |-> Get(data, "seed", NoneVal)]
    IN  IF TerrainRaises(data) THEN [raised |-> TRUE, world |-> w, result |-> NoneVal]
        ELSE [raised |-> FALSE, world |-> [w EXCEPT !.terrain = Append(@, terrain)],
              result |-> terrain]

\* a variant that keeps the oldest entries
add_narrative_keeps_oldest(w, text) ==
    LET appended == Append(w.narrative_history, text)
    IN  [w EXCEPT !.narrative_history =
           IF Len(appended) > NarrativeCap THEN SubSeq(appended, 1, NarrativeCap)
           ELSE appended]

add_narrative(w, text) ==
    LET appended == Append(w.narrative_history, text)
    IN  [w EXCEPT !.narrative_history =
           IF Len(appended) > NarrativeCap THEN LastN(appended, NarrativeCap) ELSE appended]

increment_turn(w) == [w EXCEPT !.turn_count = @ + 1]

\* a variant that lists the described objects only
get_context_summary_described(w) ==
    [turn |-> w.turn_count,
     object_count |-> Cardinality(DOMAIN w.objects),
     objects |-> {<<n, w.objects[n].description, w.objects[n].position>>
                  : n \in {m \in DOMAIN w.objects : w.objects[m].description # ""}},
     terrain |-> [i \in 1..Len(w.terrain) |-> w.terrain[i].type],
     time_of_day |-> w.environment.time_of_day,
     sun_intensity |-> w.environment.sun_intensity,
     narrative |-> LastN(w.narrative_history, SummaryNarrative)]

\* the digest, as the values its lines print
get_context_summary(w) ==
    [turn |-> w.turn_count,
     object_count |-> Cardinality(DOMAIN w.objects),
     objects |-> {<<n, IF w.objects[n].description # "" THEN w.objects[n].description
                       ELSE w.objects[n].geometry.type, w.objects[n].position>>
                  : n \in DOMAIN w.objects},
     terrain |-> [i \in 1..Len(w.terrain) |-> w.terrain[i].type],
     time_of_day |-> w.environment.time_of_day,
     sun_intensity |-> w.environment.sun_intensity,
     narrative |-> LastN(w.narrative_history, SummaryNarrative)]

\* a variant that empties the name map and keeps the rest
reset_objects(w) == [w EXCEPT !.objects = EmptyDict]

reset(w) == WorldState

(***************************************************************************)
(* services/llm_service.py: CostTracker.  Costs are in 10^-8 USD: a token   *)
(* at c cents per million tokens costs c * 10^-8 USD.                       *)
(***************************************************************************)
\* llm_service.py:94  INPUT_COST_PER_M = 1.25, in cents
InputCostPerM == 125
\* llm_service.py:95  OUTPUT_COST_PER_M = 10.0, in cents
OutputCostPerM == 1000

\* a variant that adds the tokens and leaves the request count
record_tokens(c, input_tokens, output_tokens) ==
    [total_input_tokens |-> c.total_input_tokens + input_tokens,
     total_output_tokens |-> c.total_output_tokens + output_tokens,
     total_requests |-> c.total_requests]

CostTracker == [total_input_tokens |-> 0, total_output_tokens |-> 0, total_requests |-> 0]

record(c, input_tokens, output_tokens) ==
    [total_input_tokens |-> c.total_input_tokens + input_tokens,
     total_output_tokens |-> c.total_output_tokens + output_tokens,
     total_requests |-> c.total_requests + 1]

total_cost(c) == c.total_input_tokens * InputCostPerM + c.total_output_tokens * OutputCostPerM

\* round(x, 4) of a cost in 10^-8 USD: the nearest multiple of 10^-4 USD, ties to even
Round4(n) ==
    LET q == n \div 10000
        r == n % 10000
    IN  IF r > 5000 \/ (r = 5000 /\ q % 2 = 1) THEN q + 1 ELSE q

summary(c) ==
    [total_requests |-> c.total_requests,
     total_input_tokens |-> c.total_input_tokens,
     total_output_tokens |-> c.total_output_tokens,
     total_cost_usd |-> Round4(total_cost(c))]

(***************************************************************************)
(* services/llm_service.py: LLMService._execute_tool.  er is what           *)
(* execute_model_code returns for the call, sfx the uuid4 draw.             *)
(***************************************************************************)
Action(type, name, data) == [type |-> type, name |-> name, data |-> data]

ErrorAction(message) == Action("error", "", [message |-> message])

ToolRaises(name, input_data) ==
    \/ name = "create_object" /\ CreateRaises(input_data)
    \/ name = "remove_object" /\ "name" \notin DOMAIN input_data
    \/ name = "generate_3d_model" /\ "code" \notin DOMAIN input_data
    \/ name = "narrate" /\ "text" \notin DOMAIN input_data

\* The names of the tools offered to the provider
TOOL_DEFINITIONS ==
    {"create_object", "modify_object", "remove_object", "set_environment",
     "create_terrain", "generate_3d_model", "narrate"}

\* A variant of the dispatcher's branches that lacks the one for generated
\* models: the six names the catalogue was first written with
KnownToolBeforeModels(name) ==
    name \in {"create_object", "modify_object", "remove_object", "set_environment",
              "create_terrain", "narrate"}

\* True when the tool name is one of the branches of the dispatcher
KnownTool(name) ==
    name \in {"create_object", "modify_object", "remove_object", "set_environment",
              "create_terrain", "generate_3d_model", "narrate"}

\* the Action each branch of the dispatcher builds from what the engine returned
Created(r) ==
    [raised |-> FALSE, world |-> r.world,
     action |-> Action("object_created", r.result.name, r.result)]

\* the engine raised inside the call: no Action, and the world as the engine left it
EngineRaised(r) == [raised |-> TRUE, world |-> r.world, action |-> NoneVal]

ModifiedOrMissing(r, input_data) ==
    IF r.raised THEN EngineRaised(r)
    ELSE [raised |-> FALSE, world |-> r.world,
          action |-> IF r.found
                     THEN Action("object_modified", r.result.name, r.result)
                     ELSE ErrorAction("Object not found: " \o Get(input_data, "name", "None"))]

\* a variant that reports every removal as done
RemovedWhatever(r, input_data) ==
    [raised |-> FALSE, world |-> r.world,
     action |-> Action("object_removed", input_data.name,
                       [name |-> input_data.name, success |-> r.result])]

Removed(r, input_data) ==
    [raised |-> FALSE, world |-> r.world,
     action |-> Action(IF r.result THEN "object_removed" ELSE "error", input_data.name,
                       [name |-> input_data.name, success |-> r.result])]

Updated(r, type) ==
    IF r.raised THEN EngineRaised(r)
    ELSE [raised |-> FALSE, world |-> r.world, action |-> Action(type, "", r.result)]

\* a variant that trusts the success flag alone
GeneratedOnSuccess(input_data, w, er) ==
    [raised |-> FALSE, world |-> w,
     action |->
       IF er.success
       THEN Action("model_uploaded", Get(input_data, "object_name", "generated_model"),
              [name |-> Get(input_data, "object_name", "generated_model"),
               url |-> IF er.files # <<>> THEN er.files[1].url ELSE "",
               position |-> Get(input_data, "position", Vec3(0, 0, 0)),
               scale |-> Get(input_data, "scale", Vec3(1, 1, 1)),
               rotation |-> Get(input_data, "rotation", Vec3(0, 0, 0))])
       ELSE ErrorAction("Model generation failed: " \o er.error)]

\* a variant that stores the uploaded model in the name map
GeneratedStores(input_data, w, er) ==
    IF er.success /\ er.files # <<>>
    THEN LET name == Get(input_data, "object_name", "generated_model")
         IN
           [raised |-> FALSE,
            world |-> [w EXCEPT !.objects =
                         [n \in DOMAIN @ \cup {name} |->
                            IF n = name THEN NewObject(name, [name |-> name], "a1b2c3")
                            ELSE @[n]]],
            action |-> Action("model_uploaded", name,
                         [name |-> name, url |-> er.files[1].url,
                          position |-> Get(input_data, "position", Vec3(0, 0, 0)),
                          scale |-> Get(input_data, "scale", Vec3(1, 1, 1)),
                          rotation |-> Get(input_data, "rotation", Vec3(0, 0, 0))])]
    ELSE [raised |-> FALSE, world |-> w,
          action |-> ErrorAction("Model generation failed: " \o er.error)]

\* the generate_3d_model branch, er being what execute_model_code returned;
\* the error key is always there, None ("None" in the message) on success
Generated(input_data, w, er) ==
    [raised |-> FALSE, world |-> w,
     action |->
       IF er.success /\ er.files # <<>>
       THEN Action("model_uploaded", Get(input_data, "object_name", "generated_model"),
              [name |-> Get(input_data, "object_name", "generated_model"),
               url |-> er.files[1].url,
               position |-> Get(input_data, "position", Vec3(0, 0, 0)),
               scale |-> Get(input_data, "scale", Vec3(1, 1, 1)),
               rotation |-> Get(input_data, "rotation", Vec3(0, 0, 0))])
       ELSE ErrorAction("Model generation failed: " \o er.error)]

execute_tool(name, input_data, w, sfx, er) ==
    IF ~KnownTool(name)
    THEN [raised |-> FALSE, world |-> w, action |-> ErrorAction("Unknown tool: " \o name)]
    ELSE IF ToolRaises(name, input_data)
    THEN [raised |-> TRUE, world |-> w, action |-> NoneVal]
    ELSE CASE name = "create_object" -> Created(create_object(w, input_data, sfx))
           [] name = "modify_object" ->
                ModifiedOrMissing(modify_object(w, input_data), input_data)
           [] name = "remove_object" ->
                Removed(remove_object(w, input_data.name), input_data)
           [] name = "set_environment" ->
                Updated(update_environment(w, input_data), "environment_updated")
           [] name = "create_terrain" ->
                Updated(add_terrain(w, input_data), "terrain_created")
           [] name = "generate_3d_model" -> Generated(input_data, w, er)
           [] name = "narrate" ->
                [raised |-> FALSE, world |-> add_narrative(w, input_data.text),
                 action |-> Action("narration", "", [text |-> input_data.text])]

(***************************************************************************)
(* services/llm_service.py: one provider round of process_user_input or     *)
(* _continue_generation, from the response to the decision to continue.     *)
(***************************************************************************)
\* the assistant entry built for the history
AssistantMsg(message) ==
    IF message.tool_calls # <<>>
    THEN [role |-> "assistant", content |-> message.content,
          tool_calls |-> [i \in 1..Len(message.tool_calls) |->
                            [id |-> message.tool_calls[i].id, type |-> "function",
                             function |-> [name |-> message.tool_calls[i].name,
                                           arguments |-> message.tool_calls[i].arguments]]]]
    ELSE [role |-> "assistant", content |-> message.content]

\* the tool-result entry appended after a dispatch
ToolResult(tc, action) ==
    [role |-> "tool", tool_call_id |-> tc.id,
     content |-> "Success: " \o action.type \o " - " \o action.name]

\* the for loop over message.tool_calls; json.loads raises on arguments that are
\* no JSON text, and an exception leaves the loop
RECURSIVE DispatchCalls(_, _, _, _, _, _)

\* a variant whose loop ends at the first error Action
DispatchedUntilError(tcs, r, hist, acts, sfx, er) ==
    IF r.raised
    THEN [raised |-> TRUE, world |-> r.world, history |-> hist, actions |-> acts]
    ELSE IF r.action.type = "error"
    THEN [raised |-> FALSE, world |-> r.world,
          history |-> Append(hist, ToolResult(Head(tcs), r.action)),
          actions |-> Append(acts, r.action)]
    ELSE DispatchCalls(Tail(tcs), r.world, Append(hist, ToolResult(Head(tcs), r.action)),
                       Append(acts, r.action), sfx, er)

\* after _execute_tool returned r for the first of tcs, or raised
Dispatched(tcs, r, hist, acts, sfx, er) ==
    IF r.raised
    THEN [raised |-> TRUE, world |-> r.world, history |-> hist, actions |-> acts]
    ELSE DispatchCalls(Tail(tcs), r.world, Append(hist, ToolResult(Head(tcs), r.action)),
                       Append(acts, r.action), sfx, er)

DispatchCalls(tcs, w, hist, acts, sfx, er) ==
    IF tcs = <<>>
    THEN [raised |-> FALSE, world |-> w, history |-> hist, actions |-> acts]
    ELSE IF ~Head(tcs).arguments.json
         THEN [raised |-> TRUE, world |-> w, history |-> hist, actions |-> acts]
         ELSE Dispatched(tcs, execute_tool(Head(tcs).name, Head(tcs).arguments.value,
                                           w, sfx, er),
                         hist, acts, sfx, er)

\* a variant that also continues after a round with an error Action
ShouldContinueOnError(message, round_actions) ==
    \/ message.tool_calls # <<>> /\ message.finish_reason = "tool_calls"
    \/ \E i \in 1..Len(round_actions) : round_actions[i].type = "error"

\* "if choice.finish_reason == 'tool_calls'" inside "if message.tool_calls"
ShouldContinue(message, round_actions) ==
    message.tool_calls # <<>> /\ message.finish_reason = "tool_calls"

\* a variant whose cap is one round late
CapReachedLate(d) == d > MaxDepth

\* "if depth >= 5: return []"
CapReached(d) == d >= MaxDepth

\* the body of the try block after the provider returned `message`
RoundResult(message, d, c) ==
    [raised |-> d.raised, world |-> d.world, history |-> d.history, cost |-> c,
     actions |-> d.actions,
     continue |-> ~d.raised /\ ShouldContinue(message, d.actions)]

Round(message, w, hist, c, sfx, er) ==
    RoundResult(message,
                DispatchCalls(message.tool_calls, w, Append(hist, AssistantMsg(message)),
                              <<>>, sfx, er),
                IF IsNone(message.usage) THEN c
                ELSE record(c, message.usage.prompt_tokens, message.usage.completion_tokens))

\* the user entry of process_user_input and the trim that follows it
AppendUser(hist, w, user_text) ==
    LET h == Append(hist, [role |-> "user",
                           content |-> [context |-> get_context_summary(w),
                                        text |-> user_text]])
    IN  IF Len(h) > HistoryLimit THEN LastN(h, HistoryKeep) ELSE h

(***************************************************************************)
(* The environment: the chat-completion provider, the mesh-generation      *)
(* collaborator and uuid4.  A response is [error |-> TRUE] (openai.APIError *)
(* raised by the call) or a message.  The agent gives its final answer, or  *)
(* one of VariedResponses, or it loops: it repeats its habit, one more tool *)
(* call with more to come, round after round and for as long as it likes.   *)
(* MaxVaried bounds the varied responses and the loops started in a         *)
(* session; a loop, once started, is not bounded, and neither is a failure  *)
(* of the provider, which ends the orchestrator's work on the turn.         *)
(***************************************************************************)
Json(value) == [json |-> TRUE, value |-> value]
\* arguments that json.loads rejects
BadJson == [json |-> FALSE]
Call(name, arguments) == [name |-> name, arguments |-> arguments]

NarrateCall == Call("narrate", Json([text |-> "a breeze"]))
NarrateNoText == Call("narrate", Json(EmptyDict))
ModifyGhost == Call("modify_object", Json([name |-> "ghost", position |-> [x |-> 1]]))
RemoveGhost == Call("remove_object", Json([name |-> "ghost"]))
CreateTree == Call("create_object", Json([name |-> "tree", geometry |-> [type |-> "cylinder"]]))
CreateNoName == Call("create_object", Json([geometry |-> [type |-> "box"]]))
CreateBlob == Call("create_object", Json([name |-> "blob", geometry |-> [type |-> "blob"]]))
ModifyTree == Call("modify_object", Json([name |-> "tree", position |-> [x |-> 2, y |-> 1]]))
RemoveTree == Call("remove_object", Json([name |-> "tree"]))
SetNight == Call("set_environment", Json([time_of_day |-> "night", sun_intensity |-> 10]))
CreateHills == Call("create_terrain", Json([type |-> "hills"]))
GenerateModel == Call("generate_3d_model", Json([code |-> "save_model(mesh)", object_name |-> "cat"]))
BogusTool == Call("teleport", Json(EmptyDict))
BadArguments == Call("narrate", BadJson)

Usage == [prompt_tokens |-> 3, completion_tokens |-> 2]

Message(usage, calls, finish_reason) ==
    [error |-> FALSE, usage |-> usage, content |-> "text", tool_calls |-> calls,
     finish_reason |-> finish_reason]

APIError == [error |-> TRUE]

\* the plain final answer
FinalAnswer == Message(Usage, <<>>, "stop")
\* the habit: one more tool call, and more to come
HabitResponse(call) == Message(Usage, <<call>>, "tool_calls")

Habits == {NarrateCall, ModifyGhost}
\* the agent is not in a loop
NoHabit == Call("", BadJson)

VariedResponses ==
    {Message(NoneVal, <<>>, "stop"),
     Message(Usage, <<ModifyGhost>>, "stop"),
     Message(Usage, <<NarrateCall>>, "stop"),
     Message(Usage, <<CreateTree, ModifyGhost>>, "tool_calls"),
     Message(Usage, <<CreateTree, ModifyTree, RemoveTree>>, "tool_calls"),
     Message(Usage, <<SetNight, CreateHills, GenerateModel>>, "tool_calls"),
     Message(Usage, <<BogusTool, RemoveGhost>>, "tool_calls"),
     Message(Usage, <<CreateNoName, NarrateCall>>, "tool_calls"),
     Message(Usage, <<CreateTree, NarrateNoText>>, "tool_calls"),
     Message(Usage, <<NarrateCall, CreateBlob>>, "tool_calls"),
     Message(Usage, <<BadArguments>>, "tool_calls")}

\* the ids the provider gives the tool calls of its n-th response
WithIds(message, n) ==
    IF message.error THEN message
    ELSE [message EXCEPT !.tool_calls =
            [i \in 1..Len(@) |-> [id |-> <<n, i>>, name |-> @[i].name,
                                  arguments |-> @[i].arguments]]]

\* uuid4().hex[:6]
Suffixes == {"a1b2c3", "d4e5f6"}

\* what execute_model_code can return
ExecResults ==
    {[success |-> TRUE, files |-> <<[name |-> "cat", filename |-> "cat_1.glb",
                                     url |-> "/models/cat_1.glb"],
                                    [name |-> "tail", filename |-> "tail_2.glb",
                                     url |-> "/models/tail_2.glb"]>>, error |-> "None"],
     [success |-> TRUE, files |-> <<>>, error |-> "None"],
     [success |-> FALSE, files |-> <<>>, error |-> "NameError: mesh"],
     [success |-> FALSE, files |-> <<[name |-> "cat", filename |-> "cat_1.glb",
                                      url |-> "/models/cat_1.glb"]>>,
      error |-> "ValueError: tail"]}

UserTexts == {"a forest"}

\* the response carries a call of this tool
Uses(resp, tool) ==
    ~resp.error /\ \E i \in 1..Len(resp.tool_calls) : resp.tool_calls[i].name = tool

\* uuid4 is drawn by create_object only, the executor run by generate_3d_model only
SuffixDraws(resp) ==
    IF Uses(resp, "create_object") THEN Suffixes ELSE {CHOOSE sfx \in Suffixes : TRUE}

ExecDraws(resp) ==
    IF Uses(resp, "generate_3d_model") THEN ExecResults
    ELSE {CHOOSE er \in ExecResults : TRUE}

(***************************************************************************)
(* State.                                                                  *)
(***************************************************************************)
VARIABLES
    processing,  \* Session._processing
    pc,          \* where each process_input task stands
    actions,     \* per task: the Action list of its orchestrator run
    depth,       \* per task: the depth argument of _continue_generation
    idx,         \* per task: the index of the next Action to send
    world,       \* WorldStateManager._state
    history,     \* LLMService._conversation_history
    cost,        \* LLMService.cost_tracker
    log,         \* the turn in flight: its sends and its orchestrator entry, in order
    wire,        \* the latest message issued to the websocket, by whichever task
    endpoint,    \* websocket_endpoint: where it stands and what the connection carried
    obs,         \* per task: what happened in its turn (observation only)
    varied,      \* varied responses and loops started so far
    responses,   \* provider responses so far
    habit,       \* the tool call the agent is repeating, NoHabit outside a loop
    registry,    \* session_manager: the sessions of the registry and the objects they own
    call         \* the latest call made on the engine from outside a session

vars == <<processing, pc, actions, depth, idx, world, history, cost, log, wire, obs,
          varied, responses, habit, registry, endpoint, call>>

NoRound ==
    [finish_reason |-> "", ncalls |-> 0, error_action |-> FALSE, api_error |-> FALSE,
     raised |-> FALSE, continuation |-> FALSE, usage |-> NoneVal]

NoObs == [calls |-> 0, cap |-> FALSE, last |-> NoRound, exc |-> "none", returned |-> FALSE,
          dispatched |-> 0, mutations |-> 0]

\* no call made on the engine from outside a session
NoCall ==
    [op |-> "", data |-> EmptyDict, before |-> WorldState, raised |-> FALSE,
     result |-> NoneVal, actions |-> <<>>, calls |-> 0, narrated |-> 0, removed |-> {}]

\* PersistentExecutor(): the module-level _executor.  user_ns holds the names
\* the code run so far has bound in the shell
PersistentExecutor == [shell |-> FALSE, user_ns |-> {}, generated_files |-> <<>>]

\* SessionManager.__init__: no session yet, and none of the objects that
\* create_session makes.  engines holds the WorldStateManager objects and
\* services the LLMService objects, each known by its index; stepped names
\* the session that took the latest step.
NoSessions ==
    [sessions |-> {}, objects |-> EmptyDict, engines |-> <<>>, services |-> <<>>,
     executor |-> PersistentExecutor, ran |-> {}, connections |-> EmptyDict,
     steps |-> 0, stepped |-> ""]

\* websocket_endpoint after accept and create_session: nothing sent.  first is
\* the type of the first message of the connection and snapshots the number of
\* world_state messages, counted up to two
Accepted == [pc |-> "accepted", first |-> "", snapshots |-> 0]

\* nothing sent yet
NoMessage == [task |-> 0, type |-> "", tag |-> "", ok |-> TRUE, data |-> EmptyDict]

Init ==
    /\ processing = FALSE
    /\ pc = [t \in Tasks |-> "idle"]
    /\ actions = [t \in Tasks |-> <<>>]
    /\ depth = [t \in Tasks |-> 0]
    /\ idx = [t \in Tasks |-> 0]
    /\ world = WorldState
    /\ history = <<>>
    /\ cost = CostTracker
    /\ log = <<>>
    /\ wire = NoMessage
    /\ obs = [t \in Tasks |-> NoObs]
    /\ varied = 0
    /\ responses = 0
    /\ habit = NoHabit
    /\ registry = NoSessions
    /\ endpoint = Accepted
    /\ call = NoCall

(***************************************************************************)
(* api/websocket.py: Session.  A send is issued and then returns or raises; *)
(* the log keeps the sends of the turn in flight with their outcomes, and   *)
(* wire the latest send of any task.  Tasks are run by one                  *)
(* event loop: a task keeps the loop from one await to the next, and the    *)
(* orchestrator, whose provider call is a blocking call of the synchronous  *)
(* client, never yields.                                                    *)
(***************************************************************************)
WSMessage(t, type, tag, ok, data) ==
    [task |-> t, type |-> type, tag |-> tag, ok |-> ok, data |-> data]

\* the connection after one more message of this type
Carried(e, type) ==
    [e EXCEPT !.first = IF @ = "" THEN type ELSE @,
              !.snapshots = IF type = "world_state" /\ @ < 2 THEN @ + 1 ELSE @]

\* Session.send: send_json on the websocket
Issued(t, type, tag, ok, data) ==
    /\ wire' = WSMessage(t, type, tag, ok, data)
    /\ endpoint' = Carried(endpoint, type)

\* Session.send by the turn in flight
Sent(t, type, tag, ok, data) ==
    /\ Issued(t, type, tag, ok, data)
    /\ log' = Append(log, wire')

\* "if self._processing"
IsProcessing == processing

\* tasks start in the order they were created
NextTask(t) ==
    /\ endpoint.pc = "loop"
    /\ pc[t] = "idle" /\ \A u \in Tasks : u < t => pc[u] # "idle"

\* no other task is between two awaits
Yielded(t) == \A u \in Tasks \ {t} : pc[u] \notin {"cont", "returned", "handler", "unwind"}

\* a variant of the chain without its narration branch
MessageTypeSkipping(action_type) ==
    IF action_type \in {"object_created", "object_modified", "object_removed",
                        "environment_updated", "terrain_created", "model_uploaded", "error"}
    THEN action_type
    ELSE ""

\* the if/elif chain over action_type: the MessageType sent, "" for none
MessageTypeFor(action_type) ==
    CASE action_type = "object_created" -> "object_created"
      [] action_type = "object_modified" -> "object_modified"
      [] action_type = "object_removed" -> "object_removed"
      [] action_type = "environment_updated" -> "environment_updated"
      [] action_type = "terrain_created" -> "terrain_created"
      [] action_type = "narration" -> "narration"
      [] action_type = "model_uploaded" -> "model_uploaded"
      [] action_type = "error" -> "error"
      [] OTHER -> ""

\* a variant whose rejected input is counted as a turn
RejectCountsTurn(t) ==
    /\ NextTask(t) /\ Yielded(t)
    /\ IsProcessing
    /\ \E ok \in BOOLEAN :
         Issued(t, "status", "busy", ok,
                [message |-> "Still processing previous request..."])
    /\ pc' = [pc EXCEPT ![t] = "rejected"]
    /\ world' = increment_turn(world)
    /\ UNCHANGED <<processing, actions, depth, idx, history, cost, log, obs, varied,
                   responses, habit, call, registry>>

\* the busy guard, taken: one status and return
Reject(t) ==
    /\ NextTask(t) /\ Yielded(t)
    /\ IsProcessing
    /\ \E ok \in BOOLEAN :
         Issued(t, "status", "busy", ok,
                [message |-> "Still processing previous request..."])
    /\ pc' = [pc EXCEPT ![t] = "rejected"]
    /\ UNCHANGED <<processing, actions, depth, idx, world, history, cost, log, obs, varied,
                   responses, habit, call, registry>>

\* a variant that passes the guard and leaves the flag for later
AcceptWithoutFlag(t) ==
    /\ NextTask(t) /\ Yielded(t)
    /\ ~IsProcessing
    /\ \E ok \in BOOLEAN :
         /\ Issued(t, "status", "imagining", ok, [message |-> "Imagining your world..."])
         /\ log' = <<wire'>>
         /\ pc' = [pc EXCEPT ![t] = IF ok THEN "status" ELSE "handler"]
         /\ obs' = [obs EXCEPT ![t].exc = IF ok THEN "none" ELSE "send"]
    /\ UNCHANGED <<processing, actions, depth, idx, world, history, cost, varied, responses, habit, call, registry>>

\* the busy guard, passed: the flag is set and the first status is issued
Accept(t) ==
    /\ NextTask(t) /\ Yielded(t)
    /\ ~IsProcessing
    /\ processing' = TRUE
    /\ \E ok \in BOOLEAN :
         /\ Issued(t, "status", "imagining", ok, [message |-> "Imagining your world..."])
         /\ log' = <<wire'>>
         /\ pc' = [pc EXCEPT ![t] = IF ok THEN "status" ELSE "handler"]
         /\ obs' = [obs EXCEPT ![t].exc = IF ok THEN "none" ELSE "send"]
    /\ UNCHANGED <<actions, depth, idx, world, history, cost, varied, responses, habit, call, registry>>

\* the responses the provider may give now, each with what it costs of MaxVaried
Offers ==
    LET all == {[resp |-> FinalAnswer, cost |-> 0, habit |-> NoHabit],
                [resp |-> APIError, cost |-> 0, habit |-> NoHabit]}
               \cup {[resp |-> HabitResponse(h), cost |-> IF habit = h THEN 0 ELSE 1,
                      habit |-> h] : h \in Habits}
               \cup {[resp |-> v, cost |-> 1, habit |-> NoHabit] : v \in VariedResponses}
    IN  {o \in all : varied + o.cost <= MaxVaried}

\* the Action reports a change of the world state
Mutation(action) ==
    action.type \in {"object_created", "object_modified", "object_removed",
                     "environment_updated", "terrain_created", "narration"}

RoundObs(o, message, r, continuation) ==
    [o EXCEPT !.calls = @ + 1,
              !.dispatched = @ + Len(r.actions),
              !.mutations = @ + Cardinality({i \in 1..Len(r.actions) : Mutation(r.actions[i])}),
              !.exc = IF r.raised THEN "dispatch" ELSE @,
              !.returned = ~r.raised /\ ~r.continue,
              !.last = [finish_reason |-> message.finish_reason,
                        ncalls |-> Len(message.tool_calls),
                        error_action |-> \E i \in 1..Len(r.actions) : r.actions[i].type = "error",
                        api_error |-> FALSE, raised |-> r.raised,
                        continuation |-> continuation, usage |-> message.usage]]

FailedObs(o, continuation) ==
    [o EXCEPT !.calls = @ + 1, !.returned = TRUE,
              !.last = [NoRound EXCEPT !.api_error = TRUE, !.continuation = continuation]]

\* increment_turn, then process_user_input up to its return or its recursion
InitialRound(t) ==
    /\ pc[t] = "status" /\ Yielded(t)
    /\ \E text \in UserTexts, offer \in Offers :
       \E sfx \in SuffixDraws(offer.resp), er \in ExecDraws(offer.resp) :
         LET w1 == increment_turn(world)
             h1 == AppendUser(history, w1, text)
             message == WithIds(offer.resp, responses + 1)
         IN  /\ varied' = varied + offer.cost
             /\ habit' = offer.habit
             /\ IF message.error
                THEN /\ world' = w1
                     /\ history' = h1
                     /\ cost' = cost
                     /\ actions' = [actions EXCEPT
                                      ![t] = <<ErrorAction("AI service error: APIError")>>]
                     /\ pc' = [pc EXCEPT ![t] = "returned"]
                     /\ obs' = [obs EXCEPT ![t] = FailedObs(@, FALSE)]
                ELSE \E r \in {Round(message, w1, h1, cost, sfx, er)} :
                         /\ world' = r.world
                         /\ history' = r.history
                         /\ cost' = r.cost
                         /\ actions' = [actions EXCEPT ![t] = r.actions]
                         /\ pc' = [pc EXCEPT ![t] = IF r.raised THEN "handler"
                                                    ELSE IF r.continue THEN "cont"
                                                    ELSE "returned"]
                         /\ obs' = [obs EXCEPT ![t] = RoundObs(@, message, r, FALSE)]
    /\ depth' = [depth EXCEPT ![t] = 0]
    /\ responses' = responses + 1
    /\ log' = Append(log, [task |-> t, type |-> "internal", tag |-> "orchestrator",
                           ok |-> TRUE, data |-> EmptyDict])
    /\ UNCHANGED <<processing, idx, wire, call, registry, endpoint>>

\* _continue_generation(depth) below the cap: one more provider round
ContinueRound(t) ==
    /\ pc[t] = "cont" /\ Yielded(t)
    /\ ~CapReached(depth[t])
    /\ \E offer \in Offers :
       \E sfx \in SuffixDraws(offer.resp), er \in ExecDraws(offer.resp) :
         LET message == WithIds(offer.resp, responses + 1)
         IN  /\ varied' = varied + offer.cost
             /\ habit' = offer.habit
             /\ IF message.error
                THEN /\ UNCHANGED <<world, history, cost, actions, depth>>
                     /\ pc' = [pc EXCEPT ![t] = "returned"]
                     /\ obs' = [obs EXCEPT ![t] = FailedObs(@, TRUE)]
                ELSE \E r \in {Round(message, world, history, cost, sfx, er)} :
                         /\ world' = r.world
                         /\ history' = r.history
                         /\ cost' = r.cost
                         /\ actions' = [actions EXCEPT ![t] = @ \o r.actions]
                         /\ pc' = [pc EXCEPT ![t] = IF r.raised THEN "handler"
                                                    ELSE IF r.continue THEN "cont"
                                                    ELSE "returned"]
                         /\ depth' = [depth EXCEPT ![t] = IF r.continue THEN @ + 1 ELSE @]
                         /\ obs' = [obs EXCEPT ![t] = RoundObs(@, message, r, TRUE)]
    /\ responses' = responses + 1
    /\ UNCHANGED <<processing, idx, log, wire, call, registry, endpoint>>

\* a variant that reports the cap with an error Action
ContinueCapReports(t) ==
    /\ pc[t] = "cont" /\ Yielded(t)
    /\ CapReached(depth[t])
    /\ pc' = [pc EXCEPT ![t] = "returned"]
    /\ actions' = [actions EXCEPT ![t] = Append(@, ErrorAction("Too many rounds"))]
    /\ obs' = [obs EXCEPT ![t].cap = TRUE, ![t].returned = TRUE]
    /\ UNCHANGED <<processing, depth, idx, world, history, cost, log, wire, varied,
                   responses, habit, call, registry, endpoint>>

\* _continue_generation(depth) at the cap: return []
ContinueCap(t) ==
    /\ pc[t] = "cont" /\ Yielded(t)
    /\ CapReached(depth[t])
    /\ pc' = [pc EXCEPT ![t] = "returned"]
    /\ obs' = [obs EXCEPT ![t].cap = TRUE, ![t].returned = TRUE]
    /\ UNCHANGED <<processing, actions, depth, idx, world, history, cost, log, wire, varied,
                   responses, habit, call, registry, endpoint>>

\* the Ready status with the cost summary
SendReady(t) ==
    \E ok \in BOOLEAN :
      /\ Sent(t, "status", "ready", ok, [message |-> "Ready", cost |-> summary(cost)])
      /\ pc' = [pc EXCEPT ![t] = IF ok THEN "finally" ELSE "handler"]
      /\ obs' = [obs EXCEPT ![t].exc = IF ok THEN @ ELSE "send"]

\* a variant that clears the flag as soon as the orchestrator has returned
ReturnedClearsFlag(t) ==
    /\ pc[t] = "returned" /\ Yielded(t)
    /\ processing' = FALSE
    /\ IF actions[t] # <<>>
       THEN /\ \E ok \in BOOLEAN :
                 /\ Sent(t, "status", "building", ok,
                                [message |-> "Building", count |-> Len(actions[t])])
                 /\ pc' = [pc EXCEPT ![t] = IF ok THEN "emit" ELSE "handler"]
                 /\ obs' = [obs EXCEPT ![t].exc = IF ok THEN @ ELSE "send"]
            /\ idx' = [idx EXCEPT ![t] = 1]
       ELSE /\ SendReady(t)
            /\ UNCHANGED idx
    /\ UNCHANGED <<actions, depth, world, history, cost, varied, responses, habit, call, registry>>

\* the orchestrator returned: the Building status, or Ready at once for no Action
Returned(t) ==
    /\ pc[t] = "returned" /\ Yielded(t)
    /\ IF actions[t] # <<>>
       THEN /\ \E ok \in BOOLEAN :
                 /\ Sent(t, "status", "building", ok,
                                [message |-> "Building", count |-> Len(actions[t])])
                 /\ pc' = [pc EXCEPT ![t] = IF ok THEN "emit" ELSE "handler"]
                 /\ obs' = [obs EXCEPT ![t].exc = IF ok THEN @ ELSE "send"]
            /\ idx' = [idx EXCEPT ![t] = 1]
       ELSE /\ SendReady(t)
            /\ UNCHANGED idx
    /\ UNCHANGED <<processing, actions, depth, world, history, cost, varied, responses, habit, call, registry>>

\* one pass of the for loop: the event of the Action, then the sleep
Emit(t) ==
    /\ pc[t] = "emit" /\ Yielded(t)
    /\ idx[t] <= Len(actions[t])
    /\ LET action == actions[t][idx[t]]
           type == MessageTypeFor(action.type)
       IN  IF type = ""
           THEN /\ idx' = [idx EXCEPT ![t] = @ + 1]
                /\ UNCHANGED <<log, wire, pc, obs, endpoint>>
           ELSE \E ok \in BOOLEAN :
                  /\ Sent(t, type, "action", ok, action.data)
                  /\ pc' = [pc EXCEPT ![t] = IF ok THEN "emit" ELSE "handler"]
                  /\ obs' = [obs EXCEPT ![t].exc = IF ok THEN @ ELSE "send"]
                  /\ idx' = [idx EXCEPT ![t] = IF ok THEN @ + 1 ELSE @]
    /\ UNCHANGED <<processing, actions, depth, world, history, cost, varied, responses, habit, call, registry>>

\* after the last Action: the Ready status
Ready(t) ==
    /\ pc[t] = "emit" /\ Yielded(t)
    /\ idx[t] > Len(actions[t])
    /\ SendReady(t)
    /\ UNCHANGED <<processing, actions, depth, idx, world, history, cost, varied,
                   responses, habit, call, registry>>

\* a variant whose except clause sends nothing
HandlerSwallows(t) ==
    /\ pc[t] = "handler" /\ Yielded(t)
    /\ pc' = [pc EXCEPT ![t] = "finally"]
    /\ UNCHANGED <<processing, actions, depth, idx, world, history, cost, obs, varied,
                   responses, habit, call, registry, log, wire, endpoint>>

\* except Exception: the generic error event; a raise of that send leaves the
\* handler for the finally clause at once
Handler(t) ==
    /\ pc[t] = "handler" /\ Yielded(t)
    /\ \E ok \in BOOLEAN :
         /\ Sent(t, "error", "exception", ok, [message |-> obs[t].exc])
         /\ pc' = [pc EXCEPT ![t] = IF ok THEN "finally" ELSE "unwind"]
    /\ UNCHANGED <<processing, actions, depth, idx, world, history, cost, obs, varied,
                   responses, habit, call, registry>>

\* a variant whose flag survives an exception that leaves the handler
FinishLeavesFlag(t) ==
    /\ pc[t] \in {"finally", "unwind"} /\ Yielded(t)
    /\ processing' = (pc[t] = "unwind")
    /\ pc' = [pc EXCEPT ![t] = "ended"]
    /\ actions' = [actions EXCEPT ![t] = <<>>]
    /\ depth' = [depth EXCEPT ![t] = 0]
    /\ idx' = [idx EXCEPT ![t] = 0]
    /\ obs' = [obs EXCEPT ![t] = NoObs]
    /\ log' = <<>>
    /\ UNCHANGED <<world, history, cost, wire, varied, responses, habit, call, registry, endpoint>>

\* finally: self._processing = False; the task and its locals end
Finish(t) ==
    /\ pc[t] \in {"finally", "unwind"} /\ Yielded(t)
    /\ processing' = FALSE
    /\ pc' = [pc EXCEPT ![t] = "ended"]
    /\ actions' = [actions EXCEPT ![t] = <<>>]
    /\ depth' = [depth EXCEPT ![t] = 0]
    /\ idx' = [idx EXCEPT ![t] = 0]
    /\ obs' = [obs EXCEPT ![t] = NoObs]
    /\ log' = <<>>
    /\ UNCHANGED <<world, history, cost, wire, varied, responses, habit, call, registry, endpoint>>

\* WorldStateManager.to_dict: model_dump(mode="json") of the state, field by
\* field; every scene value is kept here in its dumped form
to_dict(w) ==
    [objects |-> [name \in DOMAIN w.objects |-> w.objects[name]],
     environment |-> w.environment,
     terrain |-> [i \in 1..Len(w.terrain) |-> w.terrain[i]],
     narrative_history |-> [i \in 1..Len(w.narrative_history) |-> w.narrative_history[i]],
     turn_count |-> w.turn_count]

\* a variant that sends the scene once more in place of the prompt
SendSnapshotAgain ==
    /\ endpoint.pc = "snapshot"
    /\ \E ok \in BOOLEAN :
         /\ wire' = WSMessage(0, "world_state", "snapshot", ok, to_dict(world))
         /\ endpoint' = [Carried(endpoint, "world_state") EXCEPT
                           !.pc = IF ok THEN "loop" ELSE "closed"]
    /\ UNCHANGED <<processing, pc, actions, depth, idx, world, history, cost, log, obs, varied,
                   responses, habit, call, registry>>

\* websocket_endpoint: the initial world state; a send that raises ends the
\* endpoint, which receives nothing and creates no task
SendSnapshot ==
    /\ endpoint.pc = "accepted"
    /\ \E ok \in BOOLEAN :
         /\ wire' = WSMessage(0, "world_state", "snapshot", ok, to_dict(world))
         /\ endpoint' = [Carried(endpoint, "world_state") EXCEPT
                           !.pc = IF ok THEN "snapshot" ELSE "closed"]
    /\ UNCHANGED <<processing, pc, actions, depth, idx, world, history, cost, log, obs, varied,
                   responses, habit, call, registry>>

\* websocket_endpoint: the first status, then the receive loop
SendPrompt ==
    /\ endpoint.pc = "snapshot"
    /\ \E ok \in BOOLEAN :
         /\ wire' = WSMessage(0, "status", "prompt", ok,
                              [message |-> "Ready. Describe what you see..."])
         /\ endpoint' = [Carried(endpoint, "status") EXCEPT
                           !.pc = IF ok THEN "loop" ELSE "closed"]
    /\ UNCHANGED <<processing, pc, actions, depth, idx, world, history, cost, log, obs, varied,
                   responses, habit, call, registry>>

TurnStep(t) ==
    \/ InitialRound(t) \/ ContinueRound(t) \/ ContinueCap(t) \/ Returned(t)
    \/ Emit(t) \/ Ready(t) \/ Handler(t) \/ Finish(t)

Next ==
    \/ SendSnapshot
    \/ SendPrompt
    \/ \E t \in Tasks :
         \/ Reject(t)
         \/ Accept(t)
         \/ InitialRound(t)
         \/ ContinueRound(t)
         \/ ContinueCap(t)
         \/ Returned(t)
         \/ Emit(t)
         \/ Ready(t)
         \/ Handler(t)
         \/ Finish(t)

Spec == Init /\ [][Next]_vars

\* every send and every provider call returns, and the event loop runs every
\* task that is ready
LiveSpec == Spec /\ WF_vars(SendSnapshot \/ SendPrompt) /\ \A t \in Tasks : WF_vars(TurnStep(t))

(***************************************************************************)
(* The engine and the dispatcher called from outside a session, the way    *)
(* tests/test_world_state.py calls them: any operation on a                *)
(* WorldStateManager, in any order, and the dispatcher's loop on one list   *)
(* of tool calls.  call keeps what was asked, the world state before and    *)
(* what came back.                                                          *)
(***************************************************************************)
session == <<processing, pc, actions, depth, idx, cost, log, wire, obs, varied, responses,
             habit, registry, endpoint>>

OakSpec ==
    [name |-> "tree", description |-> "an oak", position |-> [x |-> 1, y |-> 2, z |-> 3],
     scale |-> [x |-> 2, y |-> 2, z |-> 2], geometry |-> [type |-> "sphere"],
     material |-> [color |-> [r |-> 10, g |-> 20, b |-> 30], metalness |-> 50],
     animation |-> [type |-> "rotate", speed |-> 200]]

\* "fast" where a number is expected
CreateInputs ==
    {CreateTree.arguments.value, OakSpec,
     [name |-> "grove", geometry |-> [type |-> "cylinder"],
      children |-> <<[name |-> "canopy", geometry |-> [type |-> "sphere"],
                      position |-> [x |-> 0, y |-> 3, z |-> 0]],
                     [description |-> "a root"]>>],
     [name |-> "canopy", geometry |-> [type |-> "cone"]],
     [name |-> "rock", animation |-> [type |-> "rotate", speed |-> NonNumeric]]}

ModifyInputs ==
    {ModifyTree.arguments.value,
     ModifyGhost.arguments.value,
     [name |-> "tree", position |-> [x |-> 5, y |-> 3, z |-> 1],
      material |-> [color |-> [r |-> 0, g |-> 100, b |-> 0], metalness |-> 80]],
     [name |-> "tree", position |-> NoneVal, material |-> [roughness |-> 20]],
     [name |-> "tree", animation |-> [speed |-> 300]],
     [name |-> "tree", scale |-> [x |-> 3], material |-> [color |-> NoneVal]],
     [name |-> "tree", position |-> [x |-> 7], animation |-> [speed |-> NonNumeric]],
     [name |-> "canopy", position |-> [x |-> 9, y |-> 9, z |-> 9]]}

RemoveNames == {"tree", "ghost", "grove", "canopy"}

EnvironmentInputs ==
    {SetNight.arguments.value,
     [sky_color |-> [r |-> 10, g |-> 10, b |-> 30], fog_enabled |-> TRUE,
      fog_color |-> [r |-> 50, g |-> 50, b |-> 50]],
     [fog_near |-> 10, sun_color |-> NoneVal],
     [sky_color |-> [r |-> 0, g |-> 0, b |-> 0], sun_position |-> [x |-> NonNumeric]]}

TerrainInputs == {CreateHills.arguments.value, [type |-> "hills", size |-> NonNumeric]}

\* f"Entry {i}" of test_narrative_limit
EntryText(i) == "Entry " \o ToString(i)

ToolCallLists ==
    {<<ModifyGhost>>, <<RemoveGhost, NarrateCall>>, <<CreateTree, ModifyTree>>,
     <<RemoveTree, RemoveTree, CreateTree>>, <<SetNight, CreateHills>>,
     <<BogusTool, NarrateCall>>, <<CreateTree, BogusTool, RemoveTree>>,
     <<ModifyGhost, BogusTool>>,
     <<GenerateModel, Call("modify_object", Json([name |-> "cat", position |-> [y |-> 1]])),
       Call("remove_object", Json([name |-> "cat"]))>>,
     <<GenerateModel, NarrateCall>>, <<CreateTree, NarrateNoText, RemoveTree>>,
     [i \in 1..(SummaryNarrative + 1) |-> Call("narrate", Json([text |-> EntryText(i)]))],
     <<CreateTree, Call("generate_3d_model",
                        Json([code |-> "save_model(mesh)", position |-> Vec3(1, 0, 2),
                              rotation |-> Vec3(0, 90, 0)]))>>}

\* the call is recorded with its outcome; narrated counts the texts added since
\* the engine was made or reset, removed holds the names that were stored once
\* and are not stored now
Called(op, data, w, raised, result, acts, added) ==
    /\ world' = w
    /\ call' = [op |-> op, data |-> data, before |-> world, raised |-> raised,
                result |-> result, actions |-> acts, calls |-> call.calls + 1,
                narrated |-> IF op = "reset" THEN 0 ELSE call.narrated + added,
                removed |-> (call.removed \cup DOMAIN world.objects) \ DOMAIN w.objects]
    /\ UNCHANGED session

Budget == call.calls < MaxEngineCalls

\* the uuid4 draw of create_object, made on a collision only
CollisionDraws(w, data) ==
    IF data.name \in DOMAIN w.objects THEN Suffixes ELSE {CHOOSE sfx \in Suffixes : TRUE}

CreateObject ==
    /\ Budget
    /\ \E data \in CreateInputs : \E sfx \in CollisionDraws(world, data) :
         \E r \in {create_object(world, data, sfx)} :
           Called("create_object", data, r.world, r.raised, r.result, <<>>, 0)
    /\ UNCHANGED history

ModifyObject ==
    /\ Budget
    /\ \E data \in ModifyInputs : \E r \in {modify_object(world, data)} :
         Called("modify_object", data, r.world, r.raised, r.result, <<>>, 0)
    /\ UNCHANGED history

RemoveObject ==
    /\ Budget
    /\ \E name \in RemoveNames : \E r \in {remove_object(world, name)} :
         Called("remove_object", [name |-> name], r.world, FALSE, [removed |-> r.result],
                <<>>, 0)
    /\ UNCHANGED history

UpdateEnvironment ==
    /\ Budget
    /\ \E data \in EnvironmentInputs : \E r \in {update_environment(world, data)} :
         Called("update_environment", data, r.world, r.raised, r.result, <<>>, 0)
    /\ UNCHANGED history

AddTerrain ==
    /\ Budget
    /\ \E data \in TerrainInputs : \E r \in {add_terrain(world, data)} :
         Called("add_terrain", data, r.world, r.raised, r.result, <<>>, 0)
    /\ UNCHANGED history

\* the for loop of the orchestrator over the tool calls of one response
DispatchToolCalls ==
    /\ Budget
    /\ \E tcs \in ToolCallLists, sfx \in Suffixes :
         \E message \in {WithIds(Message(Usage, tcs, "stop"), call.calls + 1)} :
         \E er \in ExecDraws(message) :
         \E d \in {DispatchCalls(message.tool_calls, world, history, <<>>, sfx, er)} :
           /\ Called("dispatch", [tool_calls |-> message.tool_calls, exec |-> er],
                     d.world, d.raised,
                     NoneVal, d.actions,
                     Cardinality({i \in 1..Len(d.actions) : d.actions[i].type = "narration"}))
           /\ history' = d.history

\* increment_turn(), while the calls made so far leave room for one more
IncrementTurn(budget) ==
    /\ budget
    /\ world.turn_count < MaxInputs
    /\ Called("increment_turn", EmptyDict, increment_turn(world), FALSE, NoneVal, <<>>, 0)
    /\ UNCHANGED history

\* reset(), on an engine that has been used
ResetWorld(budget) ==
    /\ budget
    /\ world # WorldState
    /\ Called("reset", EmptyDict, reset(world), FALSE, NoneVal, <<>>, 0)
    /\ UNCHANGED history

EngineNext ==
    \/ CreateObject
    \/ ModifyObject
    \/ RemoveObject
    \/ UpdateEnvironment
    \/ AddTerrain
    \/ DispatchToolCalls
    \/ IncrementTurn(Budget)
    \/ ResetWorld(Budget)

EngineSpec == Init /\ [][EngineNext]_vars

(***************************************************************************)
(* The narrative log of one engine, as test_narrative_limit fills it: a run *)
(* of add_narrative calls with texts that are all different, between turn   *)
(* increments and resets.                                                   *)
(***************************************************************************)
NarrativeBudget == call.calls < MaxNarrated

AddNarrative ==
    /\ NarrativeBudget
    /\ \E text \in {EntryText(call.narrated)} :
         Called("add_narrative", [text |-> text], add_narrative(world, text), FALSE,
                NoneVal, <<>>, 1)
    /\ UNCHANGED history

NarrativeNext ==
    \/ AddNarrative
    \/ IncrementTurn(NarrativeBudget)
    \/ ResetWorld(NarrativeBudget)

NarrativeSpec == Init /\ [][NarrativeNext]_vars

(***************************************************************************)
(* api/websocket.py: the registry and the turns of the sessions it made,    *)
(* interleaved on the one event loop.  A session's turn is taken from one   *)
(* await to the next: the guard and the first status, then the orchestrator *)
(* round by round (it never yields before it returns), then the sends that  *)
(* end the turn.  What a turn sends is left out here.                        *)
(***************************************************************************)
\* the statements of the programs the agent writes here: a binding of a name,
\* or save_model of a name
Statements(code) ==
    CASE code = "save_model(mesh)" -> <<[op |-> "save", name |-> "mesh"]>>
      [] code = "mesh = box(); save_model(mesh)" ->
           <<[op |-> "bind", name |-> "mesh"], [op |-> "save", name |-> "mesh"]>>
      [] OTHER -> <<>>

\* _save_model(mesh) with the default name; file_id is the uuid4 draw
SavedFile(file_id) ==
    [name |-> "model", filename |-> "model_" \o file_id \o ".glb",
     url |-> "/models/model_" \o file_id \o ".glb"]

\* shell.run_cell: statement by statement in the namespace of the shell; a
\* name that is not bound raises NameError and ends the cell
RECURSIVE run_cell(_, _, _)
run_cell(ex, stmts, file_id) ==
    IF stmts = <<>> THEN [executor |-> ex, error_in_exec |-> "None"]
    ELSE IF Head(stmts).op = "bind"
    THEN run_cell([ex EXCEPT !.user_ns = @ \cup {Head(stmts).name}], Tail(stmts), file_id)
    ELSE IF Head(stmts).name \in ex.user_ns
    THEN run_cell([ex EXCEPT !.generated_files = Append(@, SavedFile(file_id))],
                  Tail(stmts), file_id)
    ELSE [executor |-> ex,
          error_in_exec |-> "NameError: name '" \o Head(stmts).name \o "' is not defined"]

\* PersistentExecutor.execute: the shell made on first use, the file list
\* emptied, the cell run
execute(ex, code, file_id) ==
    LET r == run_cell([ex EXCEPT !.shell = TRUE, !.generated_files = <<>>],
                      Statements(code), file_id)
    IN  [executor |-> r.executor,
         result |-> [success |-> r.error_in_exec = "None",
                     files |-> r.executor.generated_files,
                     error |-> r.error_in_exec]]

\* the code of the generate_3d_model call of a response
ModelCode(resp) ==
    LET i == CHOOSE i \in 1..Len(resp.tool_calls) : resp.tool_calls[i].name = "generate_3d_model"
    IN  resp.tool_calls[i].arguments.value.code

\* execute_model_code as a round of session id runs it, if it does
Executed(reg, id, resp, file_id) ==
    IF Uses(resp, "generate_3d_model")
    THEN LET r == execute(reg.executor, ModelCode(resp), file_id)
         IN  [registry |-> [reg EXCEPT !.executor = r.executor, !.ran = @ \cup {id}],
              result |-> r.result]
    ELSE [registry |-> reg, result |-> CHOOSE er \in ExecResults : TRUE]

BindAndSave == Call("generate_3d_model", Json([code |-> "mesh = box(); save_model(mesh)"]))

\* the session_id of the path, one for each client
SessionIds == {"alice", "bob"}

\* a variant that hands the first engine to every session
create_session_shared(reg, session_id) ==
    [reg EXCEPT
       !.engines = Append(@, WorldState),
       !.services = Append(@, [world_state |-> 1, history |-> <<>>, cost |-> CostTracker]),
       !.objects = [id \in DOMAIN @ \cup {session_id} |->
                      IF id = session_id
                      THEN [world_state |-> 1, llm_service |-> Len(reg.services) + 1,
                            processing |-> FALSE, pc |-> "idle", depth |-> 0]
                      ELSE @[id]],
       !.sessions = @ \cup {session_id}]

\* WorldStateManager(), LLMService(world_state), Session(...): three new objects
create_session(reg, session_id) ==
    [reg EXCEPT
       !.engines = Append(@, WorldState),
       !.services = Append(@, [world_state |-> Len(reg.engines) + 1, history |-> <<>>,
                               cost |-> CostTracker]),
       !.objects = [id \in DOMAIN @ \cup {session_id} |->
                      IF id = session_id
                      THEN [world_state |-> Len(reg.engines) + 1,
                            llm_service |-> Len(reg.services) + 1,
                            processing |-> FALSE, pc |-> "idle", depth |-> 0]
                      ELSE @[id]],
       !.sessions = @ \cup {session_id}]

\* what the session owns: the state of its engine, and the history and the
\* cost tracker of its orchestrator
Owned(reg, id) ==
    [world |-> reg.engines[reg.objects[id].world_state],
     history |-> reg.services[reg.objects[id].llm_service].history,
     cost |-> reg.services[reg.objects[id].llm_service].cost]

\* what the provider answers a session
SessionResponses ==
    {FinalAnswer, HabitResponse(NarrateCall), Message(Usage, <<CreateTree, SetNight>>, "stop"),
     Message(Usage, <<BindAndSave>>, "stop"), Message(Usage, <<GenerateModel>>, "stop")}

\* no other session's orchestrator holds the event loop
LoopFree(id) == \A o \in DOMAIN registry.objects \ {id} : registry.objects[o].pc # "cont"

\* session id took a step that left the registry as reg
Stepped(reg, id) ==
    /\ registry.steps < MaxSteps
    /\ LoopFree(id)
    /\ registry' = [reg EXCEPT !.steps = @ + 1, !.stepped = id]
    /\ UNCHANGED <<processing, pc, actions, depth, idx, world, history, cost, log, wire, obs,
                   varied, responses, habit, call, endpoint>>

\* websocket_endpoint up to its first await after create_session
Connect(id) ==
    /\ id \notin DOMAIN registry.objects
    /\ Stepped(create_session(registry, id), id)

\* process_input: the busy guard, passed, and the flag set
BeginTurn(id) ==
    /\ id \in DOMAIN registry.objects
    /\ ~registry.objects[id].processing
    /\ Stepped([registry EXCEPT !.objects[id].processing = TRUE, !.objects[id].pc = "status"],
               id)

\* the registry after session s ran the round r on engine e1 of its service
Orchestrated(reg, id, s, e1, r) ==
    [reg EXCEPT
       !.engines = [e1 EXCEPT ![reg.services[s.llm_service].world_state] = r.world],
       !.services[s.llm_service].history = r.history,
       !.services[s.llm_service].cost = r.cost,
       !.objects[id].pc = IF r.continue THEN "cont" ELSE "sending",
       !.objects[id].depth = IF s.pc = "status" THEN 0 ELSE IF r.continue THEN @ + 1 ELSE @]

\* increment_turn and process_user_input, or _continue_generation: one round
SessionRound(id) ==
    /\ id \in DOMAIN registry.objects
    /\ \E s \in {registry.objects[id]} :
         /\ s.pc \in {"status", "cont"}
         /\ IF s.pc = "cont" /\ CapReached(s.depth)
            THEN Stepped([registry EXCEPT !.objects[id].pc = "sending"], id)
            ELSE \E resp \in SessionResponses, text \in UserTexts :
                 \E sfx \in SuffixDraws(resp) :
                 \E x \in {Executed(registry, id, resp, "0a1b2c3d")} :
                 \E er \in {x.result} :
                 \E ls \in {registry.services[s.llm_service]} :
                 \E e1 \in {IF s.pc = "status"
                             THEN [registry.engines EXCEPT ![s.world_state] = increment_turn(@)]
                             ELSE registry.engines} :
                 \E r \in {Round(WithIds(resp, ls.cost.total_requests + 1),
                                  e1[ls.world_state],
                                  IF s.pc = "status"
                                  THEN AppendUser(ls.history, e1[ls.world_state], text)
                                  ELSE ls.history,
                                  ls.cost, sfx, er)} :
                   Stepped(Orchestrated(x.registry, id, s, e1, r), id)

\* the sends that end the turn, and the finally clause
EndTurn(id) ==
    /\ id \in DOMAIN registry.objects
    /\ registry.objects[id].pc = "sending"
    /\ Stepped([registry EXCEPT !.objects[id].processing = FALSE, !.objects[id].pc = "idle"],
               id)

RegistryNext ==
    \E id \in SessionIds :
      \/ Connect(id)
      \/ BeginTurn(id)
      \/ SessionRound(id)
      \/ EndTurn(id)

RegistrySpec == Init /\ [][RegistryNext]_vars

(***************************************************************************)
(* api/websocket.py: the registry over the connections that come and go.    *)
(* A connection names its session id in its path, and any two connections   *)
(* may name the same one.  connections holds, for each connection that is    *)
(* open, its session id and the Session that create_session returned to it,  *)
(* known by the index of its engine.                                         *)
(***************************************************************************)
Connections == {"c1", "c2", "c3"}

\* SessionManager.remove_session: pop(session_id, None)
remove_session(reg, session_id) ==
    [reg EXCEPT !.objects = [id \in DOMAIN @ \ {session_id} |-> @[id]],
                !.sessions = @ \ {session_id}]

\* websocket_endpoint: accept and create_session
OpenConnection(c, id) ==
    /\ registry.steps < MaxSteps
    /\ c \notin DOMAIN registry.connections
    /\ registry' = [create_session(registry, id) EXCEPT
                      !.connections = [d \in DOMAIN @ \cup {c} |->
                                         IF d = c
                                         THEN [session_id |-> id,
                                               session |-> Len(registry.engines) + 1]
                                         ELSE @[d]],
                      !.steps = @ + 1, !.stepped = id]
    /\ UNCHANGED <<processing, pc, actions, depth, idx, world, history, cost, log, wire, obs,
                   varied, responses, habit, call, endpoint>>

\* websocket_endpoint: the disconnect, and remove_session in the finally clause
CloseConnection(c) ==
    /\ registry.steps < MaxSteps
    /\ c \in DOMAIN registry.connections
    /\ registry' = [remove_session(registry, registry.connections[c].session_id) EXCEPT
                      !.connections = [d \in DOMAIN @ \ {c} |-> @[d]],
                      !.steps = @ + 1, !.stepped = registry.connections[c].session_id]
    /\ UNCHANGED <<processing, pc, actions, depth, idx, world, history, cost, log, wire, obs,
                   varied, responses, habit, call, endpoint>>

ManagerNext ==
    \E c \in Connections :
      \/ \E id \in SessionIds : OpenConnection(c, id)
      \/ CloseConnection(c)

ManagerSpec == Init /\ [][ManagerNext]_vars

(***************************************************************************)
(* Properties.                                                             *)
(***************************************************************************)
\* past the busy guard and not yet through the finally clause
InTurn(t) == pc[t] \in {"status", "cont", "returned", "emit", "handler", "finally", "unwind"}

\* the Action events task t has issued, in the order of the sends
EventsOf(t) == SelectSeq(log, LAMBDA e : e.task = t /\ e.tag = "action")

\* the positions of the log where task t issued a send with this tag
Positions(t, tag) == {i \in 1..Len(log) : log[i].task = t /\ log[i].tag = tag}

\* the busy status, as issued by task t
BusyStatus(t, ok) ==
    WSMessage(t, "status", "busy", ok, [message |-> "Still processing previous request..."])

\* C1: a process_input that starts while an earlier one of the session has not
\* finished sends one status event and returns, leaving the turn counter, the
\* orchestrator and everything else of the session alone; and never are two
\* process_input calls past the busy guard at the same time.
C1_OneTurnInFlight ==
    /\ [](\A t, u \in Tasks : InTurn(t) /\ InTurn(u) => t = u)
    /\ [][\A t \in Tasks :
            (pc[t] = "idle" /\ pc'[t] # "idle" /\ \E u \in Tasks : InTurn(u))
            => /\ pc'[t] = "rejected"
               /\ \E ok \in BOOLEAN : wire' = BusyStatus(t, ok)
               /\ log' = log
               /\ world' = world
               /\ responses' = responses
               /\ UNCHANGED <<history, cost, actions, processing>>]_vars

\* an input has just been rejected while the turn before it is sending its
\* events
C1_Witness ==
    \E t, u \in Tasks :
      /\ pc[t] = "emit" /\ pc[u] = "rejected"
      /\ wire.task = u /\ wire.tag = "busy"
      /\ EventsOf(t) # <<>>

\* the events task t has issued are those of its first Actions, one each, in order
EventsArePrefix(t) ==
    LET ev == EventsOf(t)
    IN  /\ Len(ev) <= Len(actions[t])
        /\ \A i \in 1..Len(ev) :
             ev[i].type = actions[t][i].type /\ ev[i].data = actions[t][i].data

\* task t issued the Ready status, once, with the cost summary, after its events
ReadyAfterEvents(t) ==
    /\ Cardinality(Positions(t, "ready")) = 1
    /\ \A i \in Positions(t, "ready") :
         /\ log[i].data = [message |-> "Ready", cost |-> summary(cost)]
         /\ \A j \in Positions(t, "action") : j < i

\* every send task t has issued so far returned
SendsReturned(t) == \A i \in 1..Len(log) : log[i].task = t => log[i].ok

\* the turn of task t is over but for the finally clause
TurnOver(t) == pc[t] \in {"finally", "unwind"}

\* C2, as stated: whenever the orchestrator returned a1..an, the turn sends
\* one event per Action in order and then Ready.
C2_AsStated ==
    \A t \in Tasks :
      (TurnOver(t) /\ obs[t].returned)
      => /\ EventsArePrefix(t)
         /\ Len(EventsOf(t)) = Len(actions[t])
         /\ ReadyAfterEvents(t)

\* C2: the events a turn sends are at every moment those of a1..ak, one per
\* Action, each of the Action's kind and in the list's order, wherever the
\* busy statuses of rejected inputs fall in between; Ready is sent only after
\* the event of an, with the cost summary; and a turn whose sends all
\* returned has sent all n events and Ready.  A send that raises ends the
\* emission: the events after it are not sent.
C2_EventsFollowActions ==
    \A t \in Tasks :
      InTurn(t)
      => /\ EventsArePrefix(t)
         /\ Positions(t, "ready") # {}
            => Len(EventsOf(t)) = Len(actions[t]) /\ ReadyAfterEvents(t)
         /\ (TurnOver(t) /\ obs[t].returned /\ SendsReturned(t))
            => Len(EventsOf(t)) = Len(actions[t]) /\ ReadyAfterEvents(t)
         /\ ~SendsReturned(t)
            => \A i \in 1..Len(log) :
                 (log[i].task = t /\ ~log[i].ok)
                 => \A j \in (i+1)..Len(log) :
                      log[j].task = t => log[j].tag = "exception"

\* a turn sent three events and Ready after an input was rejected during it
C2_Witness ==
    \E t, u \in Tasks :
      /\ pc[t] = "finally" /\ SendsReturned(t)
      /\ Len(EventsOf(t)) = 3 /\ Len(actions[t]) = 3
      /\ EventsOf(t)[1].type # EventsOf(t)[2].type
      /\ wire.tag = "ready"
      /\ t < u /\ pc[u] = "rejected"

\* C3: nothing of turn N+1, neither an Action event nor the entry into the
\* orchestrator, comes before the last event of turn N: from the moment an
\* input is accepted to the end of its turn, every send other than a busy
\* status, and every orchestrator entry, is of that turn, and no send of
\* another turn comes while one is in flight.
C3_TurnsDoNotOverlap ==
    /\ \A i \in 1..Len(log) : log[i].task = log[1].task /\ InTurn(log[i].task)
    /\ \A t \in Tasks : InTurn(t) => log # <<>> /\ log[1].task = t
    /\ (wire.tag \notin {"busy", ""} /\ \E t \in Tasks : InTurn(t)) => InTurn(wire.task)

\* a second turn is sending its events after the first has ended
C3_Witness ==
    \E t, u \in Tasks :
      /\ t < u /\ pc[t] = "ended" /\ pc[u] = "emit"
      /\ EventsOf(u) # <<>>
      /\ Positions(u, "orchestrator") # {}

\* C4: at most 6 provider calls are made for one user input.
C4_AtMostSixCalls == \A t \in Tasks : obs[t].calls <= 6

\* the sixth round asked for more, every tool call of the turn having failed,
\* and the cap stopped the turn
C4_Witness ==
    \E t \in Tasks :
      /\ obs[t].calls = 6 /\ obs[t].cap
      /\ obs[t].last.finish_reason = "tool_calls"
      /\ \A i \in 1..Len(actions[t]) : actions[t][i].type = "error"
      /\ Len(actions[t]) = 6

\* C5: every accepted turn finishes and clears the busy flag, whatever the
\* provider answers: again and again no turn is in flight and the flag is
\* clear, and a turn stops being in flight only by finishing, with the flag
\* clear.  And a turn stopped by the continuation cap has no Action but those
\* of its tool calls and, its sends returning, ends with Ready and without an
\* exception.
C5_TurnsTerminate ==
    /\ []<>((\A t \in Tasks : ~InTurn(t)) /\ ~processing)
    /\ [][\A t \in Tasks :
            (InTurn(t) /\ ~InTurn(t)') => (pc'[t] = "ended" /\ ~processing')]_vars
    /\ [](\A t \in Tasks :
            obs[t].cap
            => /\ Len(actions[t]) = obs[t].dispatched
               /\ (TurnOver(t) /\ SendsReturned(t))
                  => /\ pc[t] = "finally"
                     /\ obs[t].exc = "none"
                     /\ ReadyAfterEvents(t)
                     /\ log[Len(log)].task = t => log[Len(log)].tag = "ready")

\* a turn whose six rounds all asked for more has sent Ready
C5_Witness ==
    \E t \in Tasks :
      /\ obs[t].cap /\ pc[t] = "finally" /\ SendsReturned(t)
      /\ Len(actions[t]) = 6
      /\ Positions(t, "ready") # {}

\* the response of the latest round asked for more: it carries tool calls and
\* its finish reason is "tool_calls"
Pending(t) == obs[t].last.ncalls > 0 /\ obs[t].last.finish_reason = "tool_calls"

\* the latest provider call of task t returned a response whose tool calls
\* were all dispatched
RoundCompleted(t) == obs[t].calls >= 1 /\ ~obs[t].last.api_error /\ ~obs[t].last.raised

C7_AsStated ==
    \A t \in Tasks : ~obs[t].last.raised /\ obs[t].exc # "dispatch"

\* C8, as stated: after a provider call that failed, in whichever round, the
\* turn's Action list is the Actions of the tool calls dispatched before and
\* one error Action after them, and the orchestrator has returned.
C8_AsStated ==
    \A t \in Tasks :
      (InTurn(t) /\ obs[t].last.api_error)
      => /\ obs[t].returned
         /\ Len(actions[t]) = obs[t].dispatched + 1
         /\ actions[t][Len(actions[t])].type = "error"

C10_AsStated ==
    (\A t \in Tasks : ~InTurn(t))
    => world.turn_count = Cardinality({t \in Tasks : pc[t] = "ended"})

\* C11: a process_input rejected by the busy guard leaves the world state with
\* its turn counter, the conversation history and the cost totals as they
\* were and makes no provider call; what it issues is one status event, never
\* an error event; and it stays rejected: it issues nothing later, and the
\* turns counted never exceed the inputs that passed the guard.
C11_RejectedInputIsDiscarded ==
    /\ [][\A t \in Tasks :
            (pc[t] = "idle" /\ pc'[t] = "rejected")
            => /\ world' = world /\ history' = history /\ cost' = cost
               /\ responses' = responses /\ actions' = actions
               /\ wire'.task = t /\ wire'.type = "status"]_vars
    /\ [][\A t \in Tasks :
            pc[t] = "rejected"
            => /\ pc'[t] = "rejected"
               /\ wire' # wire => wire'.task # t]_vars
    /\ [](\A t \in Tasks :
            (pc[t] = "rejected" /\ wire.task = t)
            => wire.type = "status" /\ wire.tag = "busy")
    /\ [](world.turn_count <= Cardinality({t \in Tasks : pc[t] \notin {"idle", "rejected"}}))

\* an input was rejected, the turn it overlapped has ended with Ready sent,
\* and one turn was counted
C11_Witness ==
    \E t, u \in Tasks :
      /\ pc[u] = "rejected" /\ pc[t] = "ended"
      /\ world.turn_count = 1 /\ Len(history) >= 2
      /\ wire.task = t /\ wire.tag = "ready"

\* an engine call of create_object that returned an object
CreateReturned == call.op = "create_object" /\ ~call.raised

ObjectCount(w) == Cardinality(DOMAIN w.objects)

\* C12, as stated: create_object with a requested name that is already a key
\* of the name map returns an object whose name differs from the requested
\* one and is the requested name, "_" and a suffix; the object stored under
\* the requested name is kept and the object count grows by 1.
C12_AsStated ==
    (CreateReturned /\ call.data.name \in DOMAIN call.before.objects)
    => /\ call.result.name # call.data.name
       /\ \E sfx \in Suffixes : call.result.name = call.data.name \o "_" \o sfx
       /\ call.data.name \in DOMAIN world.objects
       /\ world.objects[call.data.name] = call.before.objects[call.data.name]
       /\ ObjectCount(world) = ObjectCount(call.before) + 1

\* C13, as stated: the final name chosen by create_object is never a key of
\* the name map already, so every object stored before the call is still
\* stored, unchanged, under its name, and the count grows by exactly 1.
C13_AsStated ==
    CreateReturned
    => /\ call.result.name \notin DOMAIN call.before.objects
       /\ \A n \in DOMAIN call.before.objects :
            n \in DOMAIN world.objects /\ world.objects[n] = call.before.objects[n]
       /\ ObjectCount(world) = ObjectCount(call.before) + 1

\* the smaller of two numbers
Min(a, b) == IF a <= b THEN a ELSE b

\* C14: after any run of add_narrative calls the narrative log holds at most
\* 20 entries: the most recent min(n, 20) of the n texts added, in the order
\* they were added.
C14_NarrativeKeepsLatestTwenty ==
    /\ Len(world.narrative_history) <= 20
    /\ world.narrative_history =
         [i \in 1..Min(call.narrated, 20) |->
            EntryText(call.narrated - Min(call.narrated, 20) + i - 1)]

\* 25 texts were added: the log holds the last 20, "Entry 5" first
C14_Witness ==
    /\ call.op = "add_narrative" /\ call.narrated = 25
    /\ Len(world.narrative_history) = 20
    /\ world.narrative_history[1] = "Entry 5"
    /\ world.narrative_history[20] = "Entry 24"

\* C15, as stated: the conversation history is cut to its latest 16 entries
\* whenever an append, of a user, an assistant or a tool-result entry, takes
\* it over 20 entries, so that it never holds, and no round sends to the
\* provider, more than 20 entries.
C15_AsStated ==
    /\ Len(history) <= 20
    /\ \A t \in Tasks : (pc[t] = "cont" /\ ~CapReached(depth[t])) => Len(history) <= 20

\* the latest call was the dispatcher's loop and the first tool call of its
\* list was tool `name`
FirstDispatched(name) ==
    /\ call.op = "dispatch" /\ ~call.raised
    /\ call.data.tool_calls[1].name = name

\* the arguments of the first tool call of the list
FirstArguments == call.data.tool_calls[1].arguments.value

\* C16: modify_object with a name that is not a key of the name map returns
\* the not-found signal and leaves the whole world state as it was; the
\* dispatcher makes of it an error Action with the message
\* "Object not found: <name>", and changes nothing either.
C16_ModifyMissingChangesNothing ==
    /\ (call.op = "modify_object" /\ call.data.name \notin DOMAIN call.before.objects)
       => IsNone(call.result) /\ world = call.before
    /\ (FirstDispatched("modify_object")
        /\ FirstArguments.name \notin DOMAIN call.before.objects)
       => /\ call.actions[1].type = "error"
          /\ call.actions[1].data = [message |-> "Object not found: " \o FirstArguments.name]
          /\ Len(call.data.tool_calls) = 1 => world = call.before

\* modify_object of "ghost" was dispatched on a world that holds an object
\* and a changed environment, and the error Action came back
C16_Witness ==
    /\ FirstDispatched("modify_object") /\ Len(call.data.tool_calls) = 1
    /\ FirstArguments.name = "ghost"
    /\ call.actions[1].type = "error"
    /\ ObjectCount(call.before) = 1
    /\ call.before.environment # EnvironmentSettings

\* the name map without one key
Without(objects, name) == [n \in DOMAIN objects \ {name} |-> objects[n]]

\* C17: remove_object(name) returns true exactly when the name is a key of
\* the name map, and then deletes that entry and nothing else; a false result
\* changes nothing; a name once removed is not stored until it is created
\* again, so that a remove_object right after a remove_object of the same
\* name returns false.
C17_RemoveTrueExactlyWhenStored ==
    /\ [](call.op = "remove_object"
          => /\ call.result.removed <=> call.data.name \in DOMAIN call.before.objects
             /\ call.result.removed
                => world = [call.before EXCEPT !.objects = Without(@, call.data.name)]
             /\ ~call.result.removed => world = call.before
             /\ call.data.name \notin DOMAIN world.objects)
    /\ [](call.removed \cap DOMAIN world.objects = {})
    /\ [][(call.op = "remove_object" /\ call'.op = "remove_object"
           /\ call'.data.name = call.data.name)
          => ~call'.result.removed]_vars
    /\ [][\A n \in DOMAIN world'.objects \ DOMAIN world.objects :
            call'.op \in {"create_object", "dispatch"}]_vars

\* "tree" was stored and removed, and a further remove_object("tree") returned
\* false
C17_Witness ==
    /\ call.op = "remove_object" /\ call.data.name = "tree"
    /\ ~call.result.removed
    /\ "tree" \in call.removed
    /\ call.calls = 3

\* what the loop does with the tool calls after the first, from world state w
RestOfList(w, sfx, er) == DispatchCalls(Tail(call.data.tool_calls), w, <<>>, <<>>, sfx, er)

\* C18: dispatching remove_object for a name that is not in the world state
\* yields an Action of kind error whose payload carries that name with
\* success false, and leaves the world state as it was; the loop goes on with
\* the next tool call: the Actions and the world state that follow are those
\* of the rest of the list run on the unchanged world state.
C18_RemoveMissingIsErrorAction ==
    (FirstDispatched("remove_object") /\ FirstArguments.name \notin DOMAIN call.before.objects)
    => /\ call.actions[1].type = "error"
       /\ call.actions[1].data = [name |-> FirstArguments.name, success |-> FALSE]
       /\ Len(call.actions) = Len(call.data.tool_calls)
       /\ \E sfx \in Suffixes, er \in ExecResults :
            /\ world = RestOfList(call.before, sfx, er).world
            /\ Tail(call.actions) = RestOfList(call.before, sfx, er).actions

\* remove_object of "ghost" was dispatched on a world that holds an object:
\* the error Action came back and the narrate call after it was dispatched
C18_Witness ==
    /\ FirstDispatched("remove_object") /\ FirstArguments.name = "ghost"
    /\ ObjectCount(call.before) = 1
    /\ Len(call.actions) = 2
    /\ call.actions[1].type = "error" /\ call.actions[2].type = "narration"
    /\ world.objects = call.before.objects
    /\ Len(world.narrative_history) = Len(call.before.narrative_history) + 1

\* the patch carries key k with a value that is not null; dicts names the keys
\* whose values are dicts, the only ones the inputs give a null
CarriesValue(patch, k, dicts) == k \in DOMAIN patch /\ (k \in dicts => ~IsNone(patch[k]))

\* every field of old that the patch does not carry has its value in new
KeepsOthers(old, new, patch, dicts) ==
    \A k \in DOMAIN old : ~CarriesValue(patch, k, dicts) => new[k] = old[k]

\* C19, as stated: modify_object on an existing object changes only the fields
\* that the patch carries with a non-null value: every other field, at top
\* level and inside material, animation and the transform vectors, keeps its
\* value, and no other object or part of the world state changes.
C19_AsStated ==
    (call.op = "modify_object" /\ call.data.name \in DOMAIN call.before.objects)
    => LET old == call.before.objects[call.data.name]
           new == world.objects[call.data.name]
           top == {"position", "rotation", "scale", "material", "animation", "geometry",
                   "physics"}
       IN  /\ KeepsOthers(old, new, call.data, top)
           /\ \A k \in {"position", "rotation", "scale"} :
                CarriesValue(call.data, k, top) => KeepsOthers(old[k], new[k], call.data[k], {})
           /\ CarriesValue(call.data, "material", top)
              => KeepsOthers(old.material, new.material, call.data.material,
                             {"color", "emissive"})
           /\ CarriesValue(call.data, "animation", top)
              => KeepsOthers(old.animation, new.animation, call.data.animation, {"axis"})
           /\ world = [call.before EXCEPT !.objects[call.data.name] = new]

\* C20, as stated: update_environment changes only the environment fields
\* that the patch carries with a non-null value: a field absent from the patch
\* or present with null keeps its value, and objects, terrain, narrative log
\* and turn counter are as they were.
C20_AsStated ==
    call.op = "update_environment"
    => /\ KeepsOthers(call.before.environment, world.environment, call.data,
                      {"sky_color", "ground_color", "fog_color", "ambient_light_color",
                       "sun_color", "sun_position"})
       /\ world = [call.before EXCEPT !.environment = world.environment]

\* C21, as stated: when create_object, modify_object, update_environment or
\* add_terrain raises, the world state after the call equals the world state
\* before it.
C21_AsStated ==
    (call.op \in {"create_object", "modify_object", "update_environment", "add_terrain"}
       /\ call.raised)
    => world = call.before

\* C22: a step of one session leaves what every other session owns - its
\* world state, its conversation history and its cost totals - as it was,
\* however the turns interleave; no two sessions share an engine or an
\* orchestrator, and a session's orchestrator works on the session's engine.
C22_SessionsOwnTheirState ==
    /\ [][\A id \in DOMAIN registry.objects :
            id # registry'.stepped => Owned(registry', id) = Owned(registry, id)]_vars
    /\ [](\A a, b \in DOMAIN registry.objects :
            a # b => /\ registry.objects[a].world_state # registry.objects[b].world_state
                     /\ registry.objects[a].llm_service # registry.objects[b].llm_service)
    /\ [](\A a \in DOMAIN registry.objects :
            registry.services[registry.objects[a].llm_service].world_state
              = registry.objects[a].world_state)

\* both sessions are in a turn, one after a round that built a tree and the
\* other in a narration loop, and neither has any of the other's state
C22_Witness ==
    /\ DOMAIN registry.objects = SessionIds
    /\ registry.objects["alice"].pc = "sending" /\ registry.objects["bob"].pc = "cont"
    /\ registry.stepped = "bob"
    /\ DOMAIN Owned(registry, "alice").world.objects = {"tree"}
    /\ Owned(registry, "bob").world.objects = EmptyDict
    /\ Owned(registry, "bob").world.narrative_history # <<>>
    /\ Owned(registry, "alice").world.narrative_history = <<>>
    /\ Owned(registry, "alice").cost.total_requests = 1
    /\ Owned(registry, "bob").cost.total_requests = 1

\* the dispatcher's loop returned, and the i-th tool call of its list names a
\* tool outside the catalogue
UnknownDispatched(i) ==
    /\ call.op = "dispatch" /\ ~call.raised
    /\ i \in 1..Len(call.data.tool_calls)
    /\ ~KnownTool(call.data.tool_calls[i].name)

\* the loop over the tool calls from the i-th to the j-th, from world state w
Segment(i, j, w, sfx, er) ==
    DispatchCalls(SubSeq(call.data.tool_calls, i, j), w, <<>>, <<>>, sfx, er)

\* C23: a tool call whose name is outside the catalogue yields the error
\* Action "Unknown tool: <name>" and changes nothing in the world state, and
\* the loop goes on: the tool calls after it are dispatched on the world state
\* the tool calls before it left, and every tool call of the list has its
\* Action.
C23_UnknownToolIsErrorAction ==
    call.op = "dispatch" =>
      \A i \in 1..Len(call.data.tool_calls) :
        UnknownDispatched(i)
        => /\ Len(call.actions) = Len(call.data.tool_calls)
           /\ call.actions[i] =
                ErrorAction("Unknown tool: " \o call.data.tool_calls[i].name)
           /\ \E sfx \in Suffixes, er \in ExecResults :
                \E pre \in {Segment(1, i - 1, call.before, sfx, er)} :
                \E post \in {Segment(i + 1, Len(call.data.tool_calls), pre.world, sfx, er)} :
                  /\ world = post.world
                  /\ call.actions = pre.actions \o <<call.actions[i]>> \o post.actions

\* "teleport" was dispatched between a create_object and a remove_object:
\* the error Action came back, the tree was made before it and removed after
C23_Witness ==
    /\ UnknownDispatched(2)
    /\ Len(call.actions) = 3
    /\ call.actions[1].type = "object_created"
    /\ call.actions[2].data.message = "Unknown tool: teleport"
    /\ call.actions[3].type = "object_removed"
    /\ world = call.before

\* the dispatcher's loop returned, and the i-th tool call of its list was
\* generate_3d_model
ModelDispatched(i) ==
    /\ call.op = "dispatch" /\ ~call.raised
    /\ i \in 1..Len(call.data.tool_calls)
    /\ call.data.tool_calls[i].name = "generate_3d_model"

\* the Action that the claim gives a generate_3d_model call with these
\* arguments when the collaborator reports a success with files
ModelUploaded(arguments, files) ==
    Action("model_uploaded", Get(arguments, "object_name", "generated_model"),
           [name |-> Get(arguments, "object_name", "generated_model"),
            url |-> files[1].url,
            position |-> Get(arguments, "position", Vec3(0, 0, 0)),
            scale |-> Get(arguments, "scale", Vec3(1, 1, 1)),
            rotation |-> Get(arguments, "rotation", Vec3(0, 0, 0))])

\* C24: a generate_3d_model call yields a model_uploaded Action exactly when
\* the collaborator reported success with a non-empty files list, and then
\* the Action carries the first file's url and the call's position, scale and
\* rotation, the scale being (1, 1, 1) when the call gives none; in every
\* other case - no success, or no file - it yields the error Action
\* "Model generation failed: <error>", the error being set or not.
C24_ModelUploadedOnlyWithFiles ==
    call.op = "dispatch" =>
      \A i \in 1..Len(call.data.tool_calls) :
        ModelDispatched(i)
        => /\ (call.actions[i].type = "model_uploaded")
                <=> (call.data.exec.success /\ call.data.exec.files # <<>>)
           /\ (call.data.exec.success /\ call.data.exec.files # <<>>)
                => call.actions[i] = ModelUploaded(call.data.tool_calls[i].arguments.value,
                                                   call.data.exec.files)
           /\ ~(call.data.exec.success /\ call.data.exec.files # <<>>)
                => call.actions[i] =
                     ErrorAction("Model generation failed: " \o call.data.exec.error)

\* a model was uploaded for a call that gave a position and no scale, and on
\* another run the collaborator reported success with no file and no error
C24_Witness ==
    /\ ModelDispatched(2)
    /\ call.actions[2].type = "model_uploaded"
    /\ call.actions[2].data.url = "/models/cat_1.glb"
    /\ call.actions[2].data.scale = Vec3(1, 1, 1)
    /\ call.actions[2].data.position = Vec3(1, 0, 2)
    /\ \E er \in ExecResults :
         /\ er.success /\ er.files = <<>>
         /\ Generated(call.data.tool_calls[2].arguments.value, world, er).action
              = ErrorAction("Model generation failed: None")

\* C25, as stated: every tool call of the round is dispatched, in the order
\* received; the Action list has exactly one Action for each, in that order,
\* and the history ends with exactly one tool-result entry for each, in that
\* order, carrying the call's id and naming its Action.
C25_AsStated ==
    call.op = "dispatch"
    => /\ Len(call.actions) = Len(call.data.tool_calls)
       /\ Len(history) >= Len(call.data.tool_calls)
       /\ \A i \in 1..Len(call.data.tool_calls) :
            LastN(history, Len(call.data.tool_calls))[i]
              = ToolResult(call.data.tool_calls[i], call.actions[i])

\* the object lines of the digest that name n
LinesOf(digest, n) == {line \in digest.objects : line[1] = n}

\* C26: whatever engine operations were made, the digest reports the turn
\* count, the number of objects, the time of day and the sun intensity of the
\* world state as it is now, exactly one object line for each name of the name
\* map and none for any other name, and the latest narrative entries, five at
\* most; after update_environment with time_of_day "night" it says "night",
\* after increment_turn its turn is one more, and a name that was removed and
\* is not stored now has no line.
C26_SummaryReportsCurrentState ==
    \E s \in {get_context_summary(world)} :
      /\ s.turn = world.turn_count
      /\ s.object_count = Cardinality(DOMAIN world.objects)
      /\ \A n \in DOMAIN world.objects :
           /\ Cardinality(LinesOf(s, n)) = 1
           /\ \A line \in LinesOf(s, n) : line[3] = world.objects[n].position
      /\ \A line \in s.objects : line[1] \in DOMAIN world.objects
      /\ s.time_of_day = world.environment.time_of_day
      /\ s.sun_intensity = world.environment.sun_intensity
      /\ Len(s.narrative) = Min(Len(world.narrative_history), 5)
      /\ \A i \in 1..Len(s.narrative) :
           s.narrative[i]
             = world.narrative_history[Len(world.narrative_history) - Len(s.narrative) + i]
      /\ (call.op = "update_environment" /\ ~call.raised /\ "time_of_day" \in DOMAIN call.data
            /\ call.data.time_of_day = "night")
           => s.time_of_day = "night"
      /\ call.op = "increment_turn" => s.turn = get_context_summary(call.before).turn + 1
      /\ call.op = "remove_object" => LinesOf(s, call.data.name) = {}
      /\ \A n \in call.removed : LinesOf(s, n) = {}

\* night was set on a world with one object and six narrative entries: the
\* digest says night, has the one line and the five latest entries
C26_Witness ==
    /\ call.op = "update_environment" /\ ~call.raised
    /\ get_context_summary(world).time_of_day = "night"
    /\ get_context_summary(call.before).time_of_day = "day"
    /\ get_context_summary(world).object_count = 1
    /\ Len(world.narrative_history) = 6
    /\ get_context_summary(world).narrative = Tail(world.narrative_history)

\* the names of the children of a stored object
ChildNames(obj) == {obj.children[i].name : i \in 1..Len(obj.children)}

\* the names of the children of the objects of the name map
StoredChildNames(w) == UNION {ChildNames(w.objects[n]) : n \in DOMAIN w.objects}

\* the latest call was modify_object or remove_object with the name of a
\* child of a stored object, a name that is no key of the name map
ChildNameGiven ==
    /\ call.op \in {"modify_object", "remove_object"} /\ ~call.raised
    /\ call.data.name \in StoredChildNames(call.before)
    /\ call.data.name \notin DOMAIN call.before.objects

\* C27, as stated: create_object adds one entry to the name map, the parent, however
\* many child specs it is given; the object it returns holds the children, as
\* many as the specs and in their order; no child's name becomes a key of the
\* name map by that call; modify_object and remove_object with a child's name
\* that is no top-level name report not-found and change nothing; and
\* remove_object of the parent takes the children with it: the name map loses
\* the parent's entry, and nothing else of it stays.
C27_AsStated ==
    /\ CreateReturned
       => /\ call.result.name \notin DOMAIN call.before.objects
          /\ DOMAIN world.objects = DOMAIN call.before.objects \cup {call.result.name}
          /\ world.objects[call.result.name] = call.result
          /\ Len(call.result.children) = Len(Get(call.data, "children", <<>>))
          /\ \A i \in 1..Len(call.result.children) :
               /\ "name" \in DOMAIN call.data.children[i]
                    => call.result.children[i].name = call.data.children[i].name
               /\ call.result.children[i].description
                    = Get(call.data.children[i], "description", "")
               /\ call.result.children[i].geometry.type
                    = Get(call.data.children[i], "geometry", [type |-> "box"]).type
          /\ \A c \in ChildNames(call.result) :
               c \in DOMAIN world.objects
               => c \in DOMAIN call.before.objects \/ c = call.result.name
    /\ ChildNameGiven
       => /\ world = call.before
          /\ call.op = "modify_object" => IsNone(call.result)
          /\ call.op = "remove_object" => ~call.result.removed
    /\ (call.op = "remove_object" /\ call.data.name \in DOMAIN call.before.objects)
       => /\ call.result.removed
          /\ world = [call.before EXCEPT !.objects = Without(@, call.data.name)]
          /\ \A c \in ChildNames(call.before.objects[call.data.name]) :
               /\ c \in DOMAIN world.objects => c \in DOMAIN call.before.objects
               /\ c \in StoredChildNames(world)
                    => \E n \in DOMAIN world.objects : c \in ChildNames(call.before.objects[n])

\* C28: whatever engine operations came before, reset() leaves the empty
\* initial world state - no objects, no terrain, an empty narrative log, the
\* default environment, turn counter 0 - and the operation that follows a
\* reset starts from that state and does what it does on a fresh engine:
\* create_object stores the object under the requested name as the only
\* entry, modify_object and remove_object find nothing, increment_turn gives
\* turn 1.
C28_ResetGivesFreshEngine ==
    /\ [](call.op = "reset"
          => /\ world.objects = EmptyDict
             /\ world.terrain = <<>>
             /\ world.narrative_history = <<>>
             /\ world.environment = EnvironmentSettings
             /\ world.turn_count = 0
             /\ world = WorldState)
    /\ [][call.op = "reset"
           => /\ call'.before = WorldState
              /\ (call'.op = "create_object" /\ ~call'.raised)
                   => /\ call'.result.name = call'.data.name
                      /\ DOMAIN world'.objects = {call'.data.name}
              /\ call'.op = "modify_object"
                   => (call'.raised \/ IsNone(call'.result)) /\ world' = WorldState
              /\ call'.op = "remove_object" => ~call'.result.removed /\ world' = WorldState
              /\ call'.op = "increment_turn" => world'.turn_count = 1]_vars

\* reset was called on a world that had an object, a terrain and the night
\* environment
C28_Witness ==
    /\ call.op = "reset"
    /\ call.before.objects # EmptyDict
    /\ call.before.terrain # <<>>
    /\ call.before.environment.time_of_day = "night"
    /\ world = WorldState

\* one call of every tool of the catalogue
CatalogueCalls ==
    {CreateTree, ModifyTree, RemoveTree, SetNight, CreateHills, GenerateModel, NarrateCall}

\* C29: the tool mapping is closed and complete.  The calls above name exactly
\* the tools of the catalogue; dispatched against any world the program
\* reaches, with any suffix and any outcome of the executor, each of them
\* returns an Action that is not the "Unknown tool" error; every Action a turn
\* holds is of a kind with a client event type; and while a turn is sending
\* its Actions, every Action it went past was sent as the event of its kind
C29_ToolMappingClosedAndComplete ==
    /\ {c.name : c \in CatalogueCalls} = TOOL_DEFINITIONS
    /\ \A c \in CatalogueCalls, sfx \in Suffixes, er \in ExecResults :
         \E r \in {execute_tool(c.name, c.arguments.value, world, sfx, er)} :
           /\ ~r.raised
           /\ r.action # ErrorAction("Unknown tool: " \o c.name)
           /\ MessageTypeFor(r.action.type) # ""
    /\ \A t \in Tasks :
         /\ \A i \in 1..Len(actions[t]) : MessageTypeFor(actions[t][i].type) # ""
         /\ pc[t] = "emit"
            => /\ Len(EventsOf(t)) = idx[t] - 1
               /\ \A i \in 1..Len(EventsOf(t)) :
                    /\ EventsOf(t)[i].type = MessageTypeFor(actions[t][i].type)
                    /\ EventsOf(t)[i].ok

\* a turn has sent a model_uploaded, an environment_updated and a
\* terrain_created event, one for each of its three Actions
C29_Witness ==
    \E t \in Tasks :
      /\ pc[t] = "emit" /\ idx[t] = 4 /\ Len(actions[t]) = 3
      /\ {EventsOf(t)[i].type : i \in 1..3}
           = {"model_uploaded", "environment_updated", "terrain_created"}

\* C30: on connect the world_state snapshot is sent exactly once, first of all
\* messages and before any status or Action event, and never again.  Nothing
\* is sent before it; once the endpoint has left its first send the connection
\* has carried exactly one world_state message, the first of its messages;
\* that message holds the dump of the world as it was made, and while it is
\* the latest message no input has been taken; no send of a turn is a
\* world_state message
C30_SnapshotOnceAndFirst ==
    /\ endpoint.pc = "accepted"
       => endpoint.first = "" /\ endpoint.snapshots = 0 /\ wire = NoMessage
    /\ endpoint.pc # "accepted"
       => endpoint.first = "world_state" /\ endpoint.snapshots = 1
    /\ wire.type = "world_state"
       => /\ wire.task = 0
          /\ wire.data = to_dict(WorldState)
          /\ \A t \in Tasks : pc[t] = "idle"
    /\ \A t \in Tasks : pc[t] # "idle" => endpoint.pc = "loop"
    /\ \A i \in 1..Len(log) : log[i].type # "world_state"

\* after the snapshot and the prompt a turn has sent two Action events while a
\* later input was turned away
C30_Witness ==
    \E t, u \in Tasks :
      /\ endpoint = [pc |-> "loop", first |-> "world_state", snapshots |-> 1]
      /\ pc[t] = "emit" /\ idx[t] = 3
      /\ wire.tag = "busy" /\ pc[u] = "rejected"

\* session id took a step of its process_input: a step of a session that was
\* registered before it
InputStep(id) ==
    /\ id \in DOMAIN registry.objects
    /\ registry'.steps = registry.steps + 1
    /\ registry'.stepped = id

\* C31: the provider call is the only point at which a turn yields: once the
\* orchestrator of a session has returned and its turn is sending its events,
\* no process_input of another session takes a step until that turn has ended
C31_AsStated ==
    [][\A o \in DOMAIN registry.objects :
         registry.objects[o].pc = "sending"
         => \A id \in SessionIds \ {o} : ~InputStep(id)]_vars

\* the sessions whose turns use engine i, and those whose turns use service i
EngineUsers(i) == {id \in DOMAIN registry.objects : registry.objects[id].world_state = i}
ServiceUsers(i) == {id \in DOMAIN registry.objects : registry.objects[id].llm_service = i}

\* C32: session tasks never share mutable state: every engine, every
\* orchestrator and the executor with its file list and its namespace is read
\* and written by the turns of one session at most
C32_AsStated ==
    /\ \A i \in 1..Len(registry.engines) : Cardinality(EngineUsers(i)) <= 1
    /\ \A i \in 1..Len(registry.services) : Cardinality(ServiceUsers(i)) <= 1
    /\ Cardinality(registry.ran) <= 1

\* the tool-result entry of the i-th Action of the latest dispatch
EntryOf(i) == history[Len(history) - Len(call.actions) + i]

\* the Action is an error Action that carries its reason
Reasoned(action) == action.type = "error" /\ "message" \in DOMAIN action.data

\* C33: the tool-result entry of a call that produced an error Action reports
\* the failure and its reason: it differs from the entry of every call that
\* succeeded, and two calls of a dispatch that failed for different reasons
\* have entries of different content
C33_AsStated ==
    (call.op = "dispatch" /\ ~call.raised)
    => \A i, j \in 1..Len(call.actions) :
         /\ EntryOf(i).role = "tool"
         /\ (call.actions[i].type = "error" /\ call.actions[j].type # "error")
            => EntryOf(i).content # EntryOf(j).content
         /\ (/\ Reasoned(call.actions[i]) /\ Reasoned(call.actions[j])
             /\ call.actions[i].data.message # call.actions[j].data.message)
            => EntryOf(i).content # EntryOf(j).content

\* this step is a provider call of task t
Invoked(t) == obs'[t].calls = obs[t].calls + 1

\* the call of this step returned a response
Responded(t) == Invoked(t) /\ ~obs'[t].last.api_error

\* none of the three totals is lower after the step
NoTotalDecreases ==
    /\ cost'.total_requests >= cost.total_requests
    /\ cost'.total_input_tokens >= cost.total_input_tokens
    /\ cost'.total_output_tokens >= cost.total_output_tokens

\* the latest message is a Ready status with the totals of the tracker
ReadyCarriesTotals ==
    wire.tag = "ready"
    => /\ wire.data.cost = summary(cost)
       /\ wire.data.cost.total_requests = cost.total_requests
       /\ wire.data.cost.total_input_tokens = cost.total_input_tokens
       /\ wire.data.cost.total_output_tokens = cost.total_output_tokens

\* C34 as stated: every provider call that returned a response adds one to the
\* request count and its usage to the token totals, no other step changes the
\* tracker, no total ever decreases, and Ready carries the totals
C34_AsStated ==
    /\ [][/\ \A t \in Tasks :
               Responded(t)
               => /\ cost'.total_requests = cost.total_requests + 1
                  /\ (~IsNone(obs'[t].last.usage)
                      => cost' = record(cost, obs'[t].last.usage.prompt_tokens,
                                        obs'[t].last.usage.completion_tokens))
          /\ (\A t \in Tasks : ~Responded(t)) => cost' = cost
          /\ NoTotalDecreases]_vars
    /\ []ReadyCarriesTotals

\* C34: every provider call that returned a response reporting its usage adds
\* one to the request count and the usage to the token totals; no other step,
\* a response without usage and a failed call included, changes the tracker;
\* no total ever decreases; Ready carries the totals of all turns so far
C34_CostTrackerCountsReportedUsage ==
    /\ [][/\ \A t \in Tasks :
               (Responded(t) /\ ~IsNone(obs'[t].last.usage))
               => /\ cost'.total_requests = cost.total_requests + 1
                  /\ cost'.total_input_tokens
                       = cost.total_input_tokens + obs'[t].last.usage.prompt_tokens
                  /\ cost'.total_output_tokens
                       = cost.total_output_tokens + obs'[t].last.usage.completion_tokens
          /\ (\A t \in Tasks : ~(Responded(t) /\ ~IsNone(obs'[t].last.usage)))
              => cost' = cost
          /\ NoTotalDecreases]_vars
    /\ []ReadyCarriesTotals

\* the Ready of the second turn carries three requests and their tokens: those
\* of the first turn and its own
C34_Witness ==
    /\ wire.tag = "ready" /\ wire.ok /\ wire.task = 2
    /\ wire.data.cost.total_requests = 3
    /\ wire.data.cost.total_input_tokens = 3 * Usage.prompt_tokens
    /\ wire.data.cost.total_output_tokens = 3 * Usage.completion_tokens
    /\ obs[2].calls < 3

\* the events of task t that report a change of the world state
MutationEvents(t) == SelectSeq(EventsOf(t), LAMBDA e : Mutation(e))

\* C35, as stated: once a turn has sent its Ready or its generic error, every
\* change its tool calls made to the world state has been sent as an event of
\* the turn, also when a later tool call raised (the sends having returned)
C35_AsStated ==
    \A t \in Tasks :
      (TurnOver(t) /\ SendsReturned(t))
      => Len(MutationEvents(t)) = obs[t].mutations

\* the entry is an assistant entry that carries tool calls
Calling(entry) == entry.role = "assistant" /\ "tool_calls" \in DOMAIN entry

\* every tool-result entry follows, with tool-result entries only in between,
\* the assistant entry whose tool_calls hold its id; every assistant entry
\* with tool_calls is followed by one tool-result entry per call
WellFormed(h) ==
    /\ \A i \in 1..Len(h) :
         h[i].role = "tool"
         => \E j \in 1..(i - 1) :
              /\ Calling(h[j])
              /\ \E k \in 1..Len(h[j].tool_calls) : h[j].tool_calls[k].id = h[i].tool_call_id
              /\ \A m \in (j + 1)..(i - 1) : h[m].role = "tool"
    /\ \A j \in 1..Len(h) :
         Calling(h[j])
         => \A k \in 1..Len(h[j].tool_calls) :
              /\ j + k <= Len(h)
              /\ h[j + k].role = "tool"
              /\ h[j + k].tool_call_id = h[j].tool_calls[k].id

\* C36, as stated: the history is well formed whenever it is sent to the
\* provider: by the initial round of a turn, with the user entry appended and
\* the front trimmed, and by every continuation round
C36_AsStated ==
    \A t \in Tasks :
      /\ pc[t] = "status"
         => \A text \in UserTexts : WellFormed(AppendUser(history, increment_turn(world), text))
      /\ (pc[t] = "cont" /\ ~CapReached(depth[t])) => WellFormed(history)

\* the session of connection c is the one the registry holds under its id
Registered(c) ==
    /\ registry.connections[c].session_id \in DOMAIN registry.objects
    /\ registry.objects[registry.connections[c].session_id].world_state
         = registry.connections[c].session

\* C37: a session stays registered from its creation until its own connection
\* ends: the session of every open connection is the registry's entry for its
\* id, whatever other connections opened or closed meanwhile
C37_AsStated == \A c \in DOMAIN registry.connections : Registered(c)

\* the terminal events of task t that reached the client: its Ready and its
\* generic error
Terminal(t) == {i \in Positions(t, "ready") \cup Positions(t, "exception") : log[i].ok}

\* C38, as stated: a turn that is over has sent exactly one terminal event,
\* the Ready status or the generic error, never both and never neither
C38_AsStated ==
    \A t \in Tasks : TurnOver(t) => Cardinality(Terminal(t)) = 1

\* C38: a turn issues Ready at most once and the generic error at most once,
\* and at most one terminal event of it reaches the client.  A turn that is
\* over has sent exactly one unless the send of the generic error itself
\* raised, and then none: Ready, after all its events, when no exception was
\* raised, the sends of the turn included; the generic error when one was.  A
\* turn whose provider call failed and was turned into an error Action, and
\* whose sends returned, has sent Ready
C38_OneTerminalEvent ==
    \A t \in Tasks :
      /\ Cardinality(Positions(t, "ready")) <= 1
      /\ Cardinality(Positions(t, "exception")) <= 1
      /\ Cardinality(Terminal(t)) <= 1
      /\ pc[t] = "finally"
         => /\ Cardinality(Terminal(t)) = 1
            /\ obs[t].exc = "none"
               => /\ \A i \in Terminal(t) : log[i].tag = "ready"
                  /\ obs[t].returned
                  /\ Len(EventsOf(t)) = Len(actions[t])
            /\ obs[t].exc # "none" => \A i \in Terminal(t) : log[i].tag = "exception"
      /\ pc[t] = "unwind"
         => /\ Terminal(t) = {}
            /\ obs[t].exc # "none"
            /\ \E i \in Positions(t, "exception") : ~log[i].ok
      /\ (TurnOver(t) /\ obs[t].last.api_error /\ SendsReturned(t))
         => \E i \in Terminal(t) : log[i].tag = "ready"

\* the provider call of the first round failed: the turn has sent the error
\* Action as an event and then Ready
C38_Witness ==
    \E t \in Tasks :
      /\ pc[t] = "finally" /\ obs[t].last.api_error /\ obs[t].calls = 1
      /\ Len(EventsOf(t)) = 1 /\ EventsOf(t)[1].type = "error"
      /\ wire.tag = "ready" /\ wire.ok /\ wire.task = t

\* the name under which a generate_3d_model call places its model
ModelName(arguments) == Get(arguments, "object_name", "generated_model")

\* C39: a generate_3d_model call leaves the world state as it was, whatever
\* the collaborator returned: the name map, the object count and the context
\* summary are those of before, and when no object of the model's name was
\* stored, modify_object of that name finds nothing and remove_object of it
\* returns false right after the call
C39_GenerateLeavesWorldUnchanged ==
    call.op = "dispatch" =>
      \A i \in 1..Len(call.data.tool_calls) :
        ModelDispatched(i)
        => \E sfx \in Suffixes :
           \E pre \in {Segment(1, i - 1, call.before, sfx, call.data.exec)} :
           \E r \in {execute_tool("generate_3d_model", call.data.tool_calls[i].arguments.value,
                                  pre.world, sfx, call.data.exec)} :
           \E name \in {ModelName(call.data.tool_calls[i].arguments.value)} :
             /\ ~pre.raised /\ ~r.raised
             /\ r.action = call.actions[i]
             /\ Segment(i + 1, Len(call.data.tool_calls), r.world, sfx, call.data.exec).world
                  = world
             /\ r.world = pre.world
             /\ \A er \in ExecResults :
                  execute_tool("generate_3d_model", call.data.tool_calls[i].arguments.value,
                               pre.world, sfx, er).world = pre.world
             /\ DOMAIN r.world.objects = DOMAIN pre.world.objects
             /\ get_context_summary(r.world) = get_context_summary(pre.world)
             /\ name \notin DOMAIN pre.world.objects
                => /\ ~modify_object(r.world, [name |-> name, position |-> [y |-> 1]]).found
                   /\ ~remove_object(r.world, name).result
                   /\ \A line \in get_context_summary(r.world).objects : line[1] # name

\* a model named cat was uploaded; modify_object and remove_object of cat,
\* dispatched right after, found no such object, and the world state is the
\* one of before the dispatch
C39_Witness ==
    /\ ModelDispatched(1) /\ Len(call.actions) = 3
    /\ call.actions[1].type = "model_uploaded" /\ call.actions[1].name = "cat"
    /\ call.actions[2] = ErrorAction("Object not found: cat")
    /\ call.actions[3].type = "error" /\ call.actions[3].data.success = FALSE
    /\ world = call.before
    /\ "tree" \in DOMAIN world.objects /\ "cat" \notin DOMAIN world.objects

====
